---- MODULE Spec2Model ----
(***************************************************************************)
(* Campaign execution subsystem of the bot: the campaign store            *)
(* (database/methods.py, database/db.py), the delivery primitive, the     *)
(* broadcast / raffle / single-message executions and the scheduler       *)
(* (main.py).                                                             *)
(*                                                                        *)
(* Every "await" of the source is a step boundary: one action is one      *)
(* store call or one delivery together with the local code that runs up   *)
(* to the next await.                                                     *)
(***************************************************************************)
EXTENDS Integers, Sequences, FiniteSets, TLC

\* ------------------------------------------------------------------ bounds
MaxUser == 3            \* users.id ranges over 1..MaxUser
MaxTime == 2            \* the clock runs over 0..MaxTime
MaxCount == 1           \* tallies passed to direct store calls: 0..MaxCount
MaxCalls == 2           \* direct completion calls recorded per campaign
MaxWinners == 2         \* content.count of a raffle ranges over 1..MaxWinners
MaxPool == 2            \* the participant pool is users 1..p, p in 0..MaxPool
MaxRetries == 4         \* max_retries of a delivery call ranges over 1..MaxRetries
PageLimit == 2          \* page size passed to get_user_ids_paginated (1000 in main.py:177)
CheckpointEvery == 2    \* periodic checkpoint interval (100 in main.py:196)
BROADCAST_BATCH_SIZE == 1   \* recipients per batch pause (25 in config.py:42)
MaxCampaigns == 2       \* campaigns.id ranges over 1..MaxCampaigns
MaxCreated == 1         \* campaigns the administrator creates next to a full process
DueAt == 1              \* scheduled_for of the scheduled campaigns of SpecOrder
MaxQueue == 2           \* ids waiting in the notification queue when copies are notified

Workers == {1, 2}
OldProcess == CHOOSE w \in Workers : \A v \in Workers : w <= v
CampaignIds == 1..MaxCampaigns
UserIds == 1..MaxUser
Times == 0..MaxTime

\* a column holding SQL NULL (scheduled_for, completed_at)
NULL == -1
\* "no row" result of fetchrow
NoRow == [absent |-> TRUE]

CampaignTypes == {"broadcast", "raffle", "single_message"}

\* ------------------------------------------------------------------ state
VARIABLES
    \* --- the store (PostgreSQL) ---
    campaigns,           \* table campaigns: id -> row, for the ids inserted so far
    winners,             \* table winners, committed rows [campaign_id, user_id, notified]
    txn,                 \* per worker: rows inserted in its open transaction
    advisory_lock,       \* per campaign id: the worker holding pg advisory lock, 0 = free
    broadcast_progress,  \* table broadcast_progress: campaign id -> row or NoRow
    blocked,             \* users with is_blocked = TRUE
    valid_receipts,      \* users with at least one receipt of status 'valid'
    now,                 \* the clock (NOW() / config.get_now())
    \* --- one process (worker) ---
    pc,                  \* per worker: position in the code
    ret,                 \* per worker: where the running execute_* returns to
    cur,                 \* per worker: campaign_id of the running execute_*
    shutdown_event,      \* per worker: shutdown_event.is_set()
    notification_queue,  \* per worker: the in-process asyncio.Queue
    popped,              \* per worker: campaign_id taken from the queue (line 124), 0 = none
    pending,             \* per worker: the rest of the fallback list being walked
    listening,           \* per worker: pg_listener subscribed to 'new_campaign'
    listener_pc,         \* per worker: where the pg_listener task stands
    channel,             \* per worker: notified payloads whose callback has not run yet
    \* --- locals of execute_broadcast / execute_single_message / execute_raffle ---
    last_user_id, sent, failed, users_page, page_i,
    all_participants, sample, saved, todo, winners_data, losers,
    \* --- send_message_with_retry ---
    max_retries,         \* parameter max_retries of the call
    attempt,             \* loop variable of the retry loop
    responses,           \* transport responses seen by the call so far
    result,              \* "none" while running, else "True" / "False"
    \* --- history (not program state) ---
    callLog,             \* per campaign: (sent, failed) of each mark_campaign_completed call
    sends,               \* per worker: deliveries of the running execute_*, in order
    delivered,           \* all deliveries made so far: set of [campaign, user, kind]
    startCursor,         \* per worker: persisted cursor read at the start of the run
    startTotal,          \* per worker: persisted sent + failed read at the start of the run
    deferred,            \* ids popped from the queue and skipped as not yet due (line 132)
    invalid_logged_at,   \* time of the last "Invalid campaign_id" log (line 79), or NULL
    caught,              \* per worker: the handler ("notification", line 139, or
                         \* "scheduler", line 148) that caught an exception in the
                         \* current pass of the scheduler loop, or "none"
    tickLog              \* per worker: <<campaign id, path>> of the executions started
                         \* in the current pass of the scheduler loop

storeVars == <<campaigns, winners, txn, advisory_lock, broadcast_progress,
               blocked, valid_receipts, now>>
procVars == <<pc, ret, cur, shutdown_event, notification_queue, popped, pending, listening,
             listener_pc,
             channel>>
bcastVars == <<last_user_id, sent, failed, users_page, page_i>>
raffleVars == <<all_participants, sample, saved, todo, winners_data, losers>>
sendVars == <<max_retries, attempt, responses, result>>
histVars == <<callLog, sends, delivered, startCursor, startTotal, deferred, invalid_logged_at,
             caught, tickLog>>
histNoTick == <<callLog, sends, delivered, startCursor, startTotal, deferred,
               invalid_logged_at, caught>>
histPass == <<callLog, sends, delivered, startCursor, startTotal, deferred,
             invalid_logged_at>>
vars == <<storeVars, procVars, bcastVars, raffleVars, sendVars, histVars>>

\* ------------------------------------------------------------ the store
CampaignRow(type, content, scheduled_for) ==
    [type |-> type, content |-> content, scheduled_for |-> scheduled_for,
     is_completed |-> FALSE, created_at |-> now, completed_at |-> NULL,
     sent_count |-> 0, failed_count |-> 0]

\* content payload: count (raffle), target_user_id (single_message; 0 = absent)
Content(count, target) == [count |-> count, target_user_id |-> target]

\* get_campaign: the row, or NoRow
get_campaign(campaign_id) ==
    IF campaign_id \in DOMAIN campaigns THEN campaigns[campaign_id] ELSE NoRow

\* "info and info.get('is_completed')" at the top of every execute_*
IsCompletedNever(info) == FALSE

IsCompleted(info) == info # NoRow /\ info.is_completed

\* a completion that sets the flag and leaves the counts at zero
CompletedWithoutCounts(table, campaign_id, s, f) ==
    IF campaign_id \in DOMAIN table
    THEN [table EXCEPT ![campaign_id].is_completed = TRUE,
                       ![campaign_id].completed_at = now,
                       ![campaign_id].sent_count = 0,
                       ![campaign_id].failed_count = 0]
    ELSE table

\* mark_campaign_completed: UPDATE campaigns SET ... WHERE id = $3 (no other condition)
mark_campaign_completed(table, campaign_id, s, f) ==
    IF campaign_id \in DOMAIN table
    THEN [table EXCEPT ![campaign_id].is_completed = TRUE,
                       ![campaign_id].completed_at = now,
                       ![campaign_id].sent_count = s,
                       ![campaign_id].failed_count = f]
    ELSE table

\* add_campaign: INSERT INTO campaigns ... RETURNING id (SERIAL: next unused id)
NextCampaignId == Cardinality(DOMAIN campaigns) + 1

add_campaign(type, content, scheduled_for) ==
    [id \in DOMAIN campaigns \cup {NextCampaignId} |->
        IF id \in DOMAIN campaigns THEN campaigns[id]
        ELSE CampaignRow(type, content, scheduled_for)]

\* ascending enumeration of a finite set of integers (ORDER BY id)
RECURSIVE SortedSeq(_)
SortedSeq(S) ==
    IF S = {} THEN <<>>
    ELSE LET m == CHOOSE x \in S : \A y \in S : x <= y
         IN <<m>> \o SortedSeq(S \ {m})

Take(seq, n) == SubSeq(seq, 1, IF Len(seq) < n THEN Len(seq) ELSE n)

\* get_user_ids_paginated: WHERE is_blocked = FALSE AND id > $1 ORDER BY id LIMIT $2
PageIncludingCursor(last_id, limit) ==
    Take(SortedSeq({u \in UserIds : u \notin blocked /\ u >= last_id}), limit)

\* a page query without the is_blocked condition
PageIncludingBlocked(last_id, limit) ==
    Take(SortedSeq({u \in UserIds : u > last_id}), limit)

get_user_ids_paginated(last_id, limit) ==
    Take(SortedSeq({u \in UserIds : u \notin blocked /\ u > last_id}), limit)

\* ORDER BY created_at: the orders of the rows S in which created_at never decreases
\* (SQL leaves the order of rows with equal created_at open)
OrderedByCreatedAt(S) ==
    {rows \in [1..Cardinality(S) -> S] :
        \A i, j \in 1..Cardinality(S) :
           i < j => /\ rows[i] # rows[j]
                    /\ campaigns[rows[i]].created_at <= campaigns[rows[j]].created_at}

\* a scan without the scheduled_for condition
PendingIgnoringSchedule ==
    OrderedByCreatedAt({id \in DOMAIN campaigns : ~campaigns[id].is_completed})

\* a scan that never returns a scheduled campaign
PendingUnscheduledOnly ==
    OrderedByCreatedAt({id \in DOMAIN campaigns :
                  ~campaigns[id].is_completed /\ campaigns[id].scheduled_for = NULL})

\* a scan with ORDER BY created_at DESC
PendingNewestFirst ==
    LET S == {id \in DOMAIN campaigns :
                 /\ ~campaigns[id].is_completed
                 /\ \/ campaigns[id].scheduled_for = NULL
                    \/ campaigns[id].scheduled_for <= now}
    IN {rows \in [1..Cardinality(S) -> S] :
           \A i, j \in 1..Cardinality(S) :
              i < j => /\ rows[i] # rows[j]
                       /\ campaigns[rows[i]].created_at >= campaigns[rows[j]].created_at}

\* get_pending_campaigns: is_completed = FALSE AND (scheduled_for IS NULL OR
\* scheduled_for <= NOW()) ORDER BY created_at: the set of results the query may return
get_pending_campaigns ==
    OrderedByCreatedAt({id \in DOMAIN campaigns :
                  /\ ~campaigns[id].is_completed
                  /\ \/ campaigns[id].scheduled_for = NULL
                     \/ campaigns[id].scheduled_for <= now})

\* get_broadcast_progress / save_broadcast_progress / delete_broadcast_progress
get_broadcast_progress(campaign_id) == broadcast_progress[campaign_id]

\* a save that writes nothing
SaveNothing(table, campaign_id, last, s, f) == table

\* a save that keeps the cursor and drops the counters
SaveCursorOnly(table, campaign_id, last, s, f) ==
    [table EXCEPT ![campaign_id] =
        [last_user_id |-> last, sent_count |-> 0, failed_count |-> 0]]

save_broadcast_progress(table, campaign_id, last, s, f) ==
    [table EXCEPT ![campaign_id] =
        [last_user_id |-> last, sent_count |-> s, failed_count |-> f]]

\* add_receipt with status 'valid': the user has a valid receipt from now on
add_receipt(receipts, user_id) == receipts \cup {user_id}

delete_broadcast_progress(table, campaign_id) ==
    [table EXCEPT ![campaign_id] = NoRow]

\* get_participants_with_ids: users joined with receipts of status 'valid'
\* a pool of every user, with or without a valid receipt
EveryUser == UserIds
\* a pool that leaves out the blocked users
ParticipantsNotBlocked == valid_receipts \ blocked

get_participants_with_ids == valid_receipts

\* winners rows of a campaign, as seen by a READ COMMITTED reader
WinnerRows(campaign_id) == {r \in winners : r.campaign_id = campaign_id}
WinnerIds(campaign_id) == {r.user_id : r \in WinnerRows(campaign_id)}

\* get_unnotified_winners: WHERE w.notified = FALSE AND w.campaign_id = $1
\* a query without the notified condition
EveryWinner(campaign_id) == WinnerIds(campaign_id)

get_unnotified_winners(campaign_id) ==
    {r.user_id : r \in {x \in WinnerRows(campaign_id) : ~x.notified}}

\* save_winners_atomic, line 226: SELECT COUNT(*) FROM winners WHERE campaign_id = $1
ExistingCountAlwaysZero(campaign_id) == 0

ExistingWinnersCount(campaign_id) == Cardinality(WinnerRows(campaign_id))

\* mark_winner_notified: UPDATE winners SET notified = TRUE WHERE id = $1
\* (a row is identified by its unique (campaign_id, user_id))
\* an update without the id condition, of every row of the campaign
MarkEveryWinner(table, campaign_id, user_id) ==
    {IF r.campaign_id = campaign_id THEN [r EXCEPT !.notified = TRUE] ELSE r : r \in table}

\* a mark that changes no row
NotifiedUnchanged(table, campaign_id, user_id) == table

mark_winner_notified(table, campaign_id, user_id) ==
    {IF r.campaign_id = campaign_id /\ r.user_id = user_id
     THEN [r EXCEPT !.notified = TRUE] ELSE r : r \in table}

WinnerRow(campaign_id, user_id) ==
    [campaign_id |-> campaign_id, user_id |-> user_id, notified |-> FALSE]

\* ------------------------------------------------- the executions (main.py)
\* An execute_* function returns: its frame is dropped (ex_return) and the
\* worker continues where it was called from.
Return(w) == pc' = [pc EXCEPT ![w] = "ex_return"]

\* One send_message_with_retry call of an execution: its boolean result is the
\* transport's doing, so either value; the delivery is recorded.
Deliver(w, kind, u, ok) ==
    /\ sends' = [sends EXCEPT ![w] = Append(@, <<kind, u, ok>>)]
    /\ delivered' = delivered \cup {[campaign |-> cur[w], user |-> u, kind |-> kind]}

NoDelivery == UNCHANGED <<sends, delivered>>
histRest == <<callLog, startCursor, startTotal, deferred, invalid_logged_at, caught, tickLog>>

\* --- execute_broadcast ---
\* lines 163-165: info = get_campaign(); completed -> return
eb_get_campaign(w) ==
    /\ pc[w] = "eb_get_campaign"
    /\ IF IsCompleted(get_campaign(cur[w]))
       THEN Return(w)
       ELSE pc' = [pc EXCEPT ![w] = "eb_get_progress"]
    /\ UNCHANGED <<storeVars, ret, cur, shutdown_event, notification_queue, popped, pending,
                   listening, listener_pc, channel, bcastVars, raffleVars, sendVars, histVars>>

\* lines 167-170: load the checkpoint or start from (0, 0, 0)
eb_get_progress(w) ==
    /\ pc[w] = "eb_get_progress"
    /\ LET progress == get_broadcast_progress(cur[w])
           last == IF progress # NoRow THEN progress.last_user_id ELSE 0
       IN /\ last_user_id' = [last_user_id EXCEPT ![w] = last]
          /\ sent' = [sent EXCEPT ![w] =
                         IF progress # NoRow THEN progress.sent_count ELSE 0]
          /\ failed' = [failed EXCEPT ![w] =
                         IF progress # NoRow THEN progress.failed_count ELSE 0]
          /\ startCursor' = [startCursor EXCEPT ![w] = last]
          /\ startTotal' = [startTotal EXCEPT ![w] =
                 IF progress # NoRow THEN progress.sent_count + progress.failed_count
                 ELSE 0]
    /\ pc' = [pc EXCEPT ![w] = "eb_page"]
    /\ UNCHANGED <<storeVars, ret, cur, shutdown_event, notification_queue, popped, pending,
                   listening, listener_pc, channel, users_page, page_i, raffleVars, sendVars, callLog, sends, delivered,
                   deferred, invalid_logged_at, caught, tickLog>>

\* lines 172-179: top of the while loop: shutdown check, then the next page
eb_page(w) ==
    /\ pc[w] = "eb_page"
    /\ IF shutdown_event[w]
       THEN /\ broadcast_progress' = save_broadcast_progress(broadcast_progress,
                     cur[w], last_user_id[w], sent[w], failed[w])
            /\ Return(w)
            /\ UNCHANGED <<users_page, page_i>>
       ELSE LET users == get_user_ids_paginated(last_user_id[w], PageLimit)
            IN /\ users_page' = [users_page EXCEPT ![w] = users]
               /\ page_i' = [page_i EXCEPT ![w] = 0]
               /\ pc' = [pc EXCEPT ![w] = IF users = <<>> THEN "eb_delete" ELSE "eb_send"]
               /\ UNCHANGED broadcast_progress
    /\ UNCHANGED <<campaigns, winners, txn, advisory_lock, blocked, valid_receipts, now,
                   ret, cur, shutdown_event, notification_queue, popped, pending, listening, listener_pc, channel,
                   last_user_id, sent, failed, raffleVars, sendVars, histVars>>

\* line 196 and the loop heads: where the loop goes once the batch pause, if
\* any, is over: the periodic checkpoint, the next recipient or the next page
AfterBatch(total, rest) ==
    IF total % CheckpointEvery = 0 THEN "eb_checkpoint"
    ELSE IF rest = <<>> THEN "eb_page" ELSE "eb_send"

\* lines 181-193: one recipient of the page: shutdown check, delivery, counters,
\* cursor, and the test for the end of a batch
eb_send(w) ==
    /\ pc[w] = "eb_send"
    /\ IF shutdown_event[w]
       THEN /\ broadcast_progress' = save_broadcast_progress(broadcast_progress,
                     cur[w], last_user_id[w], sent[w], failed[w])
            /\ Return(w)
            /\ NoDelivery
            /\ UNCHANGED <<last_user_id, sent, failed, users_page, page_i>>
       ELSE \E ok \in BOOLEAN :
            LET u == Head(users_page[w])
                s == IF ok THEN sent[w] + 1 ELSE sent[w]
                f == IF ok THEN failed[w] ELSE failed[w] + 1
                rest == Tail(users_page[w])
            IN /\ Deliver(w, "broadcast", u, ok)
               /\ sent' = [sent EXCEPT ![w] = s]
               /\ failed' = [failed EXCEPT ![w] = f]
               /\ last_user_id' = [last_user_id EXCEPT ![w] = u]
               /\ users_page' = [users_page EXCEPT ![w] = rest]
               /\ page_i' = [page_i EXCEPT ![w] = page_i[w] + 1]
               /\ pc' = [pc EXCEPT ![w] =
                           IF (page_i[w] + 1) % BROADCAST_BATCH_SIZE = 0
                           THEN "eb_batch_sleep"
                           ELSE AfterBatch(s + f, rest)]
               /\ UNCHANGED broadcast_progress
    /\ UNCHANGED <<campaigns, winners, txn, advisory_lock, blocked, valid_receipts, now,
                   ret, cur, shutdown_event, notification_queue, popped, pending, listening, listener_pc, channel,
                   raffleVars, sendVars, histRest>>

\* lines 193-196: the pause at the end of a batch of BROADCAST_BATCH_SIZE
\* recipients of the page; it writes nothing
eb_batch_sleep(w) ==
    /\ pc[w] = "eb_batch_sleep"
    /\ pc' = [pc EXCEPT ![w] = AfterBatch(sent[w] + failed[w], users_page[w])]
    /\ UNCHANGED <<storeVars, ret, cur, shutdown_event, notification_queue, popped, pending,
                   listening, listener_pc, channel, bcastVars, raffleVars, sendVars, histVars>>

\* lines 196-197: the periodic checkpoint write
eb_checkpoint(w) ==
    /\ pc[w] = "eb_checkpoint"
    /\ broadcast_progress' = save_broadcast_progress(broadcast_progress,
             cur[w], last_user_id[w], sent[w], failed[w])
    /\ pc' = [pc EXCEPT ![w] = IF users_page[w] = <<>> THEN "eb_page" ELSE "eb_send"]
    /\ UNCHANGED <<campaigns, winners, txn, advisory_lock, blocked, valid_receipts, now,
                   ret, cur, shutdown_event, notification_queue, popped, pending, listening, listener_pc, channel,
                   bcastVars, raffleVars, sendVars, histVars>>

\* line 199
eb_delete(w) ==
    /\ pc[w] = "eb_delete"
    /\ broadcast_progress' = delete_broadcast_progress(broadcast_progress, cur[w])
    /\ pc' = [pc EXCEPT ![w] = "eb_complete"]
    /\ UNCHANGED <<campaigns, winners, txn, advisory_lock, blocked, valid_receipts, now,
                   ret, cur, shutdown_event, notification_queue, popped, pending, listening, listener_pc, channel,
                   bcastVars, raffleVars, sendVars, histVars>>

\* line 200
eb_complete(w) ==
    /\ pc[w] = "eb_complete"
    /\ campaigns' = mark_campaign_completed(campaigns, cur[w], sent[w], failed[w])
    /\ Return(w)
    /\ UNCHANGED <<winners, txn, advisory_lock, broadcast_progress, blocked,
                   valid_receipts, now,
                   ret, cur, shutdown_event, notification_queue, popped, pending, listening, listener_pc, channel,
                   bcastVars, raffleVars, sendVars, histVars>>

\* --- execute_single_message ---
\* lines 206-216: completed -> return; no target -> complete with (0, 1)
es_get_campaign(w) ==
    /\ pc[w] = "es_get_campaign"
    /\ LET info == get_campaign(cur[w])
       IN IF IsCompleted(info)
          THEN Return(w) /\ UNCHANGED <<sent, failed>>
          ELSE IF info = NoRow \/ info.content.target_user_id = 0
               THEN /\ sent' = [sent EXCEPT ![w] = 0]
                    /\ failed' = [failed EXCEPT ![w] = 1]
                    /\ pc' = [pc EXCEPT ![w] = "es_complete"]
               ELSE /\ UNCHANGED <<sent, failed>>
                    /\ pc' = [pc EXCEPT ![w] = "es_send"]
    /\ UNCHANGED <<storeVars, ret, cur, shutdown_event, notification_queue, popped, pending,
                   listening, listener_pc, channel, last_user_id, users_page, page_i, raffleVars, sendVars, histVars>>

\* line 218
es_send(w) ==
    /\ pc[w] = "es_send"
    /\ \E ok \in BOOLEAN :
          /\ Deliver(w, "single", campaigns[cur[w]].content.target_user_id, ok)
          /\ sent' = [sent EXCEPT ![w] = IF ok THEN 1 ELSE 0]
          /\ failed' = [failed EXCEPT ![w] = IF ok THEN 0 ELSE 1]
    /\ pc' = [pc EXCEPT ![w] = "es_complete"]
    /\ UNCHANGED <<storeVars, ret, cur, shutdown_event, notification_queue, popped, pending,
                   listening, listener_pc, channel, last_user_id, users_page, page_i, raffleVars, sendVars,
                   histRest>>

\* lines 212, 219, 222
es_complete(w) ==
    /\ pc[w] = "es_complete"
    /\ campaigns' = mark_campaign_completed(campaigns, cur[w], sent[w], failed[w])
    /\ Return(w)
    /\ UNCHANGED <<winners, txn, advisory_lock, broadcast_progress, blocked,
                   valid_receipts, now,
                   ret, cur, shutdown_event, notification_queue, popped, pending, listening, listener_pc, channel,
                   bcastVars, raffleVars, sendVars, histVars>>

\* --- execute_raffle ---
\* line 248: everybody when the pool is not larger than count, else a random.sample
\* a draw of one winner whatever the count
SamplesOfOne(pool, count) == {{u} : u \in pool}

Samples(pool, count) ==
    IF Cardinality(pool) <= count THEN {pool}
    ELSE {S \in SUBSET pool : Cardinality(S) = count}

\* Where the winner loop / loser loop goes next (no await between the loops):
\* rows are walked in ascending user id.
AfterWinners(w, restWinners, ls) ==
    IF restWinners # <<>> THEN <<"er_win", restWinners>>
    ELSE IF ls # {} THEN <<"er_lose", SortedSeq(ls)>>
    ELSE <<"er_complete", <<>> >>

AfterLosers(rest) ==
    IF rest # <<>> THEN <<"er_lose", rest>> ELSE <<"er_complete", <<>> >>

\* lines 228-230
er_get_campaign(w) ==
    /\ pc[w] = "er_get_campaign"
    /\ IF IsCompleted(get_campaign(cur[w]))
       THEN Return(w)
       ELSE pc' = [pc EXCEPT ![w] = "er_get_unnotified"]
    /\ UNCHANGED <<storeVars, ret, cur, shutdown_event, notification_queue, popped, pending,
                   listening, listener_pc, channel, bcastVars, raffleVars, sendVars, histVars>>

\* line 237: existing_winners = get_unnotified_winners()
er_get_unnotified(w) ==
    /\ pc[w] = "er_get_unnotified"
    /\ winners_data' = [winners_data EXCEPT ![w] = get_unnotified_winners(cur[w])]
    /\ pc' = [pc EXCEPT ![w] = "er_get_participants"]
    /\ UNCHANGED <<storeVars, ret, cur, shutdown_event, notification_queue, popped, pending,
                   listening, listener_pc, channel, bcastVars, all_participants, sample, saved, todo, losers,
                   sendVars, histVars>>

\* lines 238-250 and 259-260: read the pool; resume with the existing winners, or
\* complete an empty pool, or draw the sample
er_get_participants(w) ==
    /\ pc[w] = "er_get_participants"
    /\ LET pool == get_participants_with_ids
           count == campaigns[cur[w]].content.count
       IN /\ all_participants' = [all_participants EXCEPT ![w] = pool]
          /\ sent' = [sent EXCEPT ![w] = 0]
          /\ failed' = [failed EXCEPT ![w] = 0]
          /\ IF winners_data[w] # {}
             THEN LET ls == pool \ winners_data[w]
                      nxt == AfterWinners(w, SortedSeq(winners_data[w]), ls)
                  IN /\ losers' = [losers EXCEPT ![w] = ls]
                     /\ pc' = [pc EXCEPT ![w] = nxt[1]]
                     /\ todo' = [todo EXCEPT ![w] = nxt[2]]
                     /\ UNCHANGED sample
             ELSE IF pool = {}
                  THEN /\ pc' = [pc EXCEPT ![w] = "er_complete"]
                       /\ UNCHANGED <<sample, todo, losers>>
                  ELSE \E s \in Samples(pool, count) :
                          /\ sample' = [sample EXCEPT ![w] = s]
                          /\ pc' = [pc EXCEPT ![w] = "swa_lock"]
                          /\ UNCHANGED <<todo, losers>>
    /\ UNCHANGED <<storeVars, ret, cur, shutdown_event, notification_queue, popped, pending,
                   listening, listener_pc, channel, last_user_id, users_page, page_i, saved, winners_data,
                   sendVars, histVars>>

\* save_winners_atomic, methods.py lines 222-224: pg_try_advisory_lock
swa_lock(w) ==
    /\ pc[w] = "swa_lock"
    /\ IF advisory_lock[cur[w]] = 0
       THEN /\ advisory_lock' = [advisory_lock EXCEPT ![cur[w]] = w]
            /\ pc' = [pc EXCEPT ![w] = "swa_count"]
            /\ UNCHANGED saved
       ELSE /\ saved' = [saved EXCEPT ![w] = 0]
            /\ pc' = [pc EXCEPT ![w] = "er_reread"]
            /\ UNCHANGED advisory_lock
    /\ UNCHANGED <<campaigns, winners, txn, broadcast_progress, blocked, valid_receipts,
                   now, ret, cur, shutdown_event, notification_queue, popped, pending, listening, listener_pc, channel,
                   bcastVars, all_participants, sample, todo, winners_data, losers,
                   sendVars, histVars>>

\* methods.py lines 226-231: SELECT COUNT(*) under the lock, then BEGIN
swa_count(w) ==
    /\ pc[w] = "swa_count"
    /\ IF ExistingWinnersCount(cur[w]) > 0
       THEN /\ saved' = [saved EXCEPT ![w] = 0]
            /\ pc' = [pc EXCEPT ![w] = "swa_unlock"]
            /\ UNCHANGED todo
       ELSE /\ saved' = [saved EXCEPT ![w] = 0]
            /\ todo' = [todo EXCEPT ![w] = SortedSeq(sample[w])]
            /\ pc' = [pc EXCEPT ![w] = "swa_insert"]
    /\ UNCHANGED <<storeVars, ret, cur, shutdown_event, notification_queue, popped, pending,
                   listening, listener_pc, channel, bcastVars, all_participants, sample, winners_data, losers,
                   sendVars, histVars>>

\* methods.py lines 232-237: one INSERT ... ON CONFLICT DO NOTHING in the transaction
swa_insert(w) ==
    /\ pc[w] = "swa_insert"
    /\ LET u == Head(todo[w])
           row == WinnerRow(cur[w], u)
       IN /\ txn' = [txn EXCEPT ![w] =
                        IF u \in WinnerIds(cur[w]) THEN @ ELSE @ \cup {row}]
          /\ saved' = [saved EXCEPT ![w] = @ + 1]
          /\ todo' = [todo EXCEPT ![w] = Tail(@)]
          /\ pc' = [pc EXCEPT ![w] =
                       IF Tail(todo[w]) = <<>> THEN "swa_commit" ELSE "swa_insert"]
    /\ UNCHANGED <<campaigns, winners, advisory_lock, broadcast_progress, blocked,
                   valid_receipts, now, ret, cur, shutdown_event, notification_queue, popped,
                   pending, listening, listener_pc, channel, bcastVars, all_participants, sample,
                   winners_data, losers, sendVars, histVars>>

\* methods.py line 231: leaving the transaction block commits the inserted rows
swa_commit(w) ==
    /\ pc[w] = "swa_commit"
    /\ winners' = winners \cup txn[w]
    /\ txn' = [txn EXCEPT ![w] = {}]
    /\ pc' = [pc EXCEPT ![w] = "swa_unlock"]
    /\ UNCHANGED <<campaigns, advisory_lock, broadcast_progress, blocked,
                   valid_receipts, now, ret, cur, shutdown_event, notification_queue, popped,
                   pending, listening, listener_pc, channel, bcastVars, raffleVars, sendVars, histVars>>

\* methods.py lines 239-240: finally: pg_advisory_unlock
swa_unlock(w) ==
    /\ pc[w] = "swa_unlock"
    /\ advisory_lock' = [advisory_lock EXCEPT ![cur[w]] = 0]
    /\ pc' = [pc EXCEPT ![w] = "er_reread"]
    /\ UNCHANGED <<campaigns, winners, txn, broadcast_progress, blocked, valid_receipts,
                   now, ret, cur, shutdown_event, notification_queue, popped, pending, listening, listener_pc, channel,
                   bcastVars, raffleVars, sendVars, histVars>>

\* main.py lines 253-260: winners_data = get_unnotified_winners(), saved or not
er_reread(w) ==
    /\ pc[w] = "er_reread"
    /\ LET data == get_unnotified_winners(cur[w])
           ls == all_participants[w] \ data
           nxt == AfterWinners(w, SortedSeq(data), ls)
       IN /\ winners_data' = [winners_data EXCEPT ![w] = data]
          /\ losers' = [losers EXCEPT ![w] = ls]
          /\ pc' = [pc EXCEPT ![w] = nxt[1]]
          /\ todo' = [todo EXCEPT ![w] = nxt[2]]
    /\ UNCHANGED <<storeVars, ret, cur, shutdown_event, notification_queue, popped, pending,
                   listening, listener_pc, channel, bcastVars, all_participants, sample, saved,
                   sendVars, histVars>>

\* lines 262-270: one winner: shutdown check, the win message
er_win(w) ==
    /\ pc[w] = "er_win"
    /\ IF shutdown_event[w]
       THEN /\ Return(w)
            /\ NoDelivery
            /\ UNCHANGED <<sent, failed, todo>>
       ELSE \E ok \in BOOLEAN :
            LET u == Head(todo[w])
                nxt == AfterWinners(w, Tail(todo[w]), losers[w])
            IN /\ Deliver(w, "win", u, ok)
               /\ IF ok
                  THEN /\ sent' = [sent EXCEPT ![w] = @ + 1]
                       /\ pc' = [pc EXCEPT ![w] = "er_mark"]
                       /\ UNCHANGED <<failed, todo>>
                  ELSE /\ failed' = [failed EXCEPT ![w] = @ + 1]
                       /\ pc' = [pc EXCEPT ![w] = nxt[1]]
                       /\ todo' = [todo EXCEPT ![w] = nxt[2]]
                       /\ UNCHANGED sent
    /\ UNCHANGED <<storeVars, ret, cur, shutdown_event, notification_queue, popped, pending,
                   listening, listener_pc, channel, last_user_id, users_page, page_i, all_participants, sample, saved,
                   winners_data, losers, sendVars, histRest>>

\* line 266: mark_winner_notified after a successful win message
er_mark(w) ==
    /\ pc[w] = "er_mark"
    /\ LET u == Head(todo[w])
           nxt == AfterWinners(w, Tail(todo[w]), losers[w])
       IN /\ winners' = mark_winner_notified(winners, cur[w], u)
          /\ pc' = [pc EXCEPT ![w] = nxt[1]]
          /\ todo' = [todo EXCEPT ![w] = nxt[2]]
    /\ UNCHANGED <<campaigns, txn, advisory_lock, broadcast_progress, blocked,
                   valid_receipts, now, ret, cur, shutdown_event, notification_queue, popped,
                   pending, listening, listener_pc, channel, bcastVars, all_participants, sample, saved,
                   winners_data, losers, sendVars, histVars>>

\* lines 272-279: one loser: shutdown check, the lose message
er_lose(w) ==
    /\ pc[w] = "er_lose"
    /\ IF shutdown_event[w]
       THEN /\ Return(w)
            /\ NoDelivery
            /\ UNCHANGED <<sent, failed, todo>>
       ELSE \E ok \in BOOLEAN :
            LET u == Head(todo[w])
                nxt == AfterLosers(Tail(todo[w]))
            IN /\ Deliver(w, "lose", u, ok)
               /\ sent' = [sent EXCEPT ![w] = IF ok THEN @ + 1 ELSE @]
               /\ failed' = [failed EXCEPT ![w] = IF ok THEN @ ELSE @ + 1]
               /\ pc' = [pc EXCEPT ![w] = nxt[1]]
               /\ todo' = [todo EXCEPT ![w] = nxt[2]]
    /\ UNCHANGED <<storeVars, ret, cur, shutdown_event, notification_queue, popped, pending,
                   listening, listener_pc, channel, last_user_id, users_page, page_i, all_participants, sample, saved,
                   winners_data, losers, sendVars, histRest>>

\* lines 245 and 281
er_complete(w) ==
    /\ pc[w] = "er_complete"
    /\ campaigns' = mark_campaign_completed(campaigns, cur[w], sent[w], failed[w])
    /\ Return(w)
    /\ UNCHANGED <<winners, txn, advisory_lock, broadcast_progress, blocked,
                   valid_receipts, now,
                   ret, cur, shutdown_event, notification_queue, popped, pending, listening, listener_pc, channel,
                   bcastVars, raffleVars, sendVars, histVars>>

\* the frame of a returned execute_* is gone
ex_return(w) ==
    /\ pc[w] = "ex_return"
    /\ pc' = [pc EXCEPT ![w] = ret[w]]
    /\ cur' = [cur EXCEPT ![w] = 0]
    /\ last_user_id' = [last_user_id EXCEPT ![w] = 0]
    /\ sent' = [sent EXCEPT ![w] = 0]
    /\ failed' = [failed EXCEPT ![w] = 0]
    /\ users_page' = [users_page EXCEPT ![w] = <<>>]
    /\ page_i' = [page_i EXCEPT ![w] = 0]
    /\ all_participants' = [all_participants EXCEPT ![w] = {}]
    /\ sample' = [sample EXCEPT ![w] = {}]
    /\ saved' = [saved EXCEPT ![w] = NULL]
    /\ todo' = [todo EXCEPT ![w] = <<>>]
    /\ winners_data' = [winners_data EXCEPT ![w] = {}]
    /\ losers' = [losers EXCEPT ![w] = {}]
    /\ sends' = [sends EXCEPT ![w] = <<>>]
    /\ startCursor' = [startCursor EXCEPT ![w] = 0]
    /\ startTotal' = [startTotal EXCEPT ![w] = 0]
    /\ UNCHANGED <<storeVars, ret, shutdown_event, notification_queue, popped, pending,
                   listening, listener_pc, channel, sendVars, callLog, delivered, deferred,
                   invalid_logged_at, caught, tickLog>>

\* ------------------------------------------------------- the scheduler
\* process_campaign (lines 99-112): dispatch on the type of the fetched row
StartLabel(type) ==
    IF type = "broadcast" THEN "eb_get_campaign"
    ELSE IF type = "raffle" THEN "er_get_campaign"
    ELSE "es_get_campaign"

process_campaign(w, campaign_id, back) ==
    /\ cur' = [cur EXCEPT ![w] = campaign_id]
    /\ ret' = [ret EXCEPT ![w] = back]
    /\ pc' = [pc EXCEPT ![w] = StartLabel(campaigns[campaign_id].type)]

\* lines 127-133: the check of the notification path on a popped id
ScheduledInFuture(campaign) ==
    campaign.scheduled_for # NULL /\ campaign.scheduled_for > now

\* line 128: `if campaign and not campaign.get('is_completed')`
\* a check that lets a completed campaign through
ExecuteWhenPresent(campaign) == campaign # NoRow

ShouldExecute(campaign) == campaign # NoRow /\ ~campaign.is_completed

\* lines 122-127: pop one id from the queue and call get_campaign
sched_queue_pop(w) ==
    /\ pc[w] = "sched_queue"
    /\ notification_queue[w] # <<>>
    /\ notification_queue' = [notification_queue EXCEPT ![w] = Tail(@)]
    /\ popped' = [popped EXCEPT ![w] = Head(notification_queue[w])]
    /\ pc' = [pc EXCEPT ![w] = "sched_loaded"]
    /\ UNCHANGED <<storeVars, ret, cur, shutdown_event, pending, listening, listener_pc,
                   channel, bcastVars, raffleVars, sendVars, histVars>>

\* lines 127-137: get_campaign returned: skip the id or execute the campaign
sched_queue_loaded(w) ==
    /\ pc[w] = "sched_loaded"
    /\ popped' = [popped EXCEPT ![w] = 0]
    /\ LET campaign == get_campaign(popped[w])
       IN IF ShouldExecute(campaign)
          THEN IF ScheduledInFuture(campaign)
               THEN /\ deferred' = deferred \cup {popped[w]}
                    /\ pc' = [pc EXCEPT ![w] = "sched_queue"]
                    /\ UNCHANGED <<ret, cur, tickLog>>
               ELSE /\ process_campaign(w, popped[w], "sched_queue")
                    /\ tickLog' = [tickLog EXCEPT ![w] = Append(@, <<popped[w], "queue">>)]
                    /\ UNCHANGED deferred
          ELSE /\ pc' = [pc EXCEPT ![w] = "sched_queue"]
               /\ UNCHANGED <<ret, cur, deferred, tickLog>>
    /\ UNCHANGED <<storeVars, shutdown_event, notification_queue, pending, listening,
                   listener_pc, channel, bcastVars, raffleVars, sendVars, callLog, sends,
                   delivered, startCursor, startTotal, invalid_logged_at, caught>>

\* line 143: the queue is empty: pending = get_pending_campaigns()
sched_fetch_pending(w) ==
    /\ pc[w] = "sched_queue"
    /\ notification_queue[w] = <<>>
    /\ \E rows \in get_pending_campaigns : pending' = [pending EXCEPT ![w] = rows]
    /\ pc' = [pc EXCEPT ![w] = "sched_fallback"]
    /\ UNCHANGED <<storeVars, ret, cur, shutdown_event, notification_queue, popped, listening, listener_pc, channel,
                   bcastVars, raffleVars, sendVars, histVars>>

\* lines 143-146: the next campaign of the fallback list, unless shutdown is set
sched_fallback(w) ==
    /\ pc[w] = "sched_fallback"
    /\ IF pending[w] = <<>> \/ shutdown_event[w]
       THEN /\ pc' = [pc EXCEPT ![w] = "sched_sleep"]
            /\ pending' = [pending EXCEPT ![w] = <<>>]
            /\ UNCHANGED <<ret, cur, tickLog>>
       ELSE /\ process_campaign(w, Head(pending[w]), "sched_fallback")
            /\ pending' = [pending EXCEPT ![w] = Tail(@)]
            /\ tickLog' = [tickLog EXCEPT ![w] = Append(@, <<Head(pending[w]), "fallback">>)]
    /\ UNCHANGED <<storeVars, shutdown_event, notification_queue, popped, listening, listener_pc, channel,
                   bcastVars, raffleVars, sendVars, histNoTick>>

\* a sleep that the shutdown event does not end
SleepIgnoresShutdown(stop) == "sched_queue"

\* lines 151-156 and 119: wait_for(shutdown_event.wait(), SCHEDULER_INTERVAL):
\* the event ends the wait and the loop; the timeout begins the next pass
AfterSleep(stop) == IF stop THEN "stopped" ELSE "sched_queue"

\* lines 119 and 151-156: sleep SCHEDULER_INTERVAL, or stop when shutdown is set
sched_sleep(w) ==
    /\ pc[w] = "sched_sleep"
    /\ pc' = [pc EXCEPT ![w] = AfterSleep(shutdown_event[w])]
    /\ tickLog' = [tickLog EXCEPT ![w] = <<>>]
    /\ caught' = [caught EXCEPT ![w] = "none"]
    /\ UNCHANGED <<storeVars, ret, cur, shutdown_event, notification_queue, popped, pending,
                   listening, listener_pc, channel, bcastVars, raffleVars, sendVars, histPass>>

\* lines 321-322: SIGINT / SIGTERM set the shutdown event
Shutdown(w) ==
    /\ pc[w] # "stopped"
    /\ ~shutdown_event[w]
    /\ shutdown_event' = [shutdown_event EXCEPT ![w] = TRUE]
    /\ UNCHANGED <<storeVars, pc, ret, cur, notification_queue, popped, pending, listening, listener_pc, channel,
                   bcastVars, raffleVars, sendVars, histVars>>

\* lines 33-35 and 341-342: the process is started again: fresh event and queue,
\* the listener not yet subscribed
Restart(w) ==
    /\ pc[w] = "stopped"
    /\ pc' = [pc EXCEPT ![w] = "sched_queue"]
    /\ shutdown_event' = [shutdown_event EXCEPT ![w] = FALSE]
    /\ notification_queue' = [notification_queue EXCEPT ![w] = <<>>]
    /\ popped' = [popped EXCEPT ![w] = 0]
    /\ listening' = [listening EXCEPT ![w] = FALSE]
    /\ listener_pc' = [listener_pc EXCEPT ![w] = "connect"]
    /\ channel' = [channel EXCEPT ![w] = {}]
    /\ pending' = [pending EXCEPT ![w] = <<>>]
    /\ UNCHANGED <<storeVars, ret, cur, bcastVars, raffleVars, sendVars, histVars>>

\* the process is killed where it stands (no handler runs): its frames are gone,
\* and the store ends its sessions: the open transaction of save_winners_atomic
\* is rolled back and its advisory lock released
Crash(w) ==
    /\ pc[w] # "stopped"
    /\ pc' = [pc EXCEPT ![w] = "stopped"]
    /\ txn' = [txn EXCEPT ![w] = {}]
    /\ advisory_lock' = [c \in CampaignIds |->
                            IF advisory_lock[c] = w THEN 0 ELSE advisory_lock[c]]
    /\ cur' = [cur EXCEPT ![w] = 0]
    /\ pending' = [pending EXCEPT ![w] = <<>>]
    /\ last_user_id' = [last_user_id EXCEPT ![w] = 0]
    /\ sent' = [sent EXCEPT ![w] = 0]
    /\ failed' = [failed EXCEPT ![w] = 0]
    /\ users_page' = [users_page EXCEPT ![w] = <<>>]
    /\ page_i' = [page_i EXCEPT ![w] = 0]
    /\ all_participants' = [all_participants EXCEPT ![w] = {}]
    /\ sample' = [sample EXCEPT ![w] = {}]
    /\ saved' = [saved EXCEPT ![w] = NULL]
    /\ todo' = [todo EXCEPT ![w] = <<>>]
    /\ winners_data' = [winners_data EXCEPT ![w] = {}]
    /\ losers' = [losers EXCEPT ![w] = {}]
    /\ sends' = [sends EXCEPT ![w] = <<>>]
    /\ startCursor' = [startCursor EXCEPT ![w] = 0]
    /\ startTotal' = [startTotal EXCEPT ![w] = 0]
    /\ UNCHANGED <<campaigns, winners, broadcast_progress, blocked, valid_receipts, now,
                   ret, shutdown_event, notification_queue, listening, listener_pc, channel,
                   sendVars, callLog, delivered, deferred,
                   invalid_logged_at>>
    /\ caught' = [caught EXCEPT ![w] = "none"]
    /\ popped' = [popped EXCEPT ![w] = 0]
    /\ tickLog' = [tickLog EXCEPT ![w] = <<>>]

\* --- a store call raises (get_connection, db.py lines 45-64, or the query) ---
\* the positions at which the worker is in, or about to make, a store call
AtStoreCall(w) ==
    \/ pc[w] \in {"sched_loaded",
                  "eb_get_campaign", "eb_get_progress", "eb_page", "eb_checkpoint",
                  "eb_delete", "eb_complete", "es_get_campaign", "es_complete",
                  "er_get_campaign", "er_get_unnotified", "er_get_participants",
                  "swa_lock", "swa_count", "swa_insert", "swa_commit", "swa_unlock",
                  "er_reread", "er_mark", "er_complete"}
    \/ pc[w] = "sched_queue" /\ notification_queue[w] = <<>>
    \/ pc[w] = "eb_send" /\ shutdown_event[w]

\* the part of the scheduler loop the worker is in: the queue drain (lines
\* 122-140) or the fallback scan (lines 143-146)
Path(w) ==
    IF pc[w] = "sched_loaded" \/ (cur[w] # 0 /\ ret[w] = "sched_queue")
    THEN "sched_queue" ELSE "sched_fallback"

\* a scheduler without its try blocks: the exception ends the task
ExceptionEndsScheduler(path) == "stopped"

\* lines 139-140: an exception in the queue drain is logged and the drain goes
\* on; lines 148-156: an exception anywhere else in the pass is logged and the
\* loop goes to its sleep
\* a transaction left by an exception that keeps the rows inserted so far
KeepInserted(table, rows) == table \cup rows

\* methods.py line 231: `async with db.conn.transaction()` left by an
\* exception: the rows inserted in it are discarded
Rollback(table, rows) == table

\* an exception of the queue loop that ends the whole pass
ExceptionEndsPass(path) == "sched_sleep"

AfterException(path) == IF path = "sched_queue" THEN "sched_queue" ELSE "sched_sleep"

\* The store call raises: the exception leaves execute_* and process_campaign
\* (their frames are gone; save_winners_atomic rolls its transaction back and
\* its lock goes with the unlock of the finally block or with the session) and
\* reaches the try block of the scheduler around it.
StoreFails(w) ==
    /\ AtStoreCall(w)
    /\ pc' = [pc EXCEPT ![w] = AfterException(Path(w))]
    /\ caught' = [caught EXCEPT ![w] =
                    IF Path(w) = "sched_queue" THEN "notification" ELSE "scheduler"]
    /\ txn' = [txn EXCEPT ![w] = {}]
    /\ advisory_lock' = [c \in CampaignIds |->
                            IF advisory_lock[c] = w THEN 0 ELSE advisory_lock[c]]
    /\ cur' = [cur EXCEPT ![w] = 0]
    /\ popped' = [popped EXCEPT ![w] = 0]
    /\ pending' = [pending EXCEPT ![w] = <<>>]
    /\ last_user_id' = [last_user_id EXCEPT ![w] = 0]
    /\ sent' = [sent EXCEPT ![w] = 0]
    /\ failed' = [failed EXCEPT ![w] = 0]
    /\ users_page' = [users_page EXCEPT ![w] = <<>>]
    /\ page_i' = [page_i EXCEPT ![w] = 0]
    /\ all_participants' = [all_participants EXCEPT ![w] = {}]
    /\ sample' = [sample EXCEPT ![w] = {}]
    /\ saved' = [saved EXCEPT ![w] = NULL]
    /\ todo' = [todo EXCEPT ![w] = <<>>]
    /\ winners_data' = [winners_data EXCEPT ![w] = {}]
    /\ losers' = [losers EXCEPT ![w] = {}]
    /\ sends' = [sends EXCEPT ![w] = <<>>]
    /\ startCursor' = [startCursor EXCEPT ![w] = 0]
    /\ startTotal' = [startTotal EXCEPT ![w] = 0]
    /\ winners' = Rollback(winners, txn[w])
    /\ UNCHANGED <<campaigns, broadcast_progress, blocked, valid_receipts, now,
                   ret, shutdown_event, notification_queue, listening, listener_pc, channel,
                   sendVars, callLog, delivered, deferred, invalid_logged_at, tickLog>>

\* ------------------------------------------------------ specifications
\* What every specification starts from: no execution running, nothing delivered.
InitProcess(running) ==
    /\ pc = [w \in Workers |-> IF w \in running THEN "sched_queue" ELSE "stopped"]
    /\ ret = [w \in Workers |-> "sched_fallback"]
    /\ cur = [w \in Workers |-> 0]
    /\ shutdown_event = [w \in Workers |-> FALSE]
    /\ notification_queue = [w \in Workers |-> <<>>]
    /\ popped = [w \in Workers |-> 0]
    /\ pending = [w \in Workers |-> <<>>]
    /\ listening = [w \in Workers |-> FALSE]
    /\ listener_pc = [w \in Workers |-> "connect"]
    /\ channel = [w \in Workers |-> {}]
    /\ last_user_id = [w \in Workers |-> 0]
    /\ sent = [w \in Workers |-> 0]
    /\ failed = [w \in Workers |-> 0]
    /\ users_page = [w \in Workers |-> <<>>]
    /\ page_i = [w \in Workers |-> 0]
    /\ all_participants = [w \in Workers |-> {}]
    /\ sample = [w \in Workers |-> {}]
    /\ saved = [w \in Workers |-> NULL]
    /\ todo = [w \in Workers |-> <<>>]
    /\ winners_data = [w \in Workers |-> {}]
    /\ losers = [w \in Workers |-> {}]
    /\ sends = [w \in Workers |-> <<>>]
    /\ startCursor = [w \in Workers |-> 0]
    /\ startTotal = [w \in Workers |-> 0]
    /\ delivered = {}
    /\ deferred = {}
    /\ invalid_logged_at = NULL
    /\ caught = [w \in Workers |-> "none"]
    /\ tickLog = [w \in Workers |-> <<>>]
    /\ callLog = [c \in CampaignIds |-> <<>>]

InitEmptyStore ==
    /\ now = 0
    /\ winners = {}
    /\ txn = [w \in Workers |-> {}]
    /\ advisory_lock = [c \in CampaignIds |-> 0]
    /\ broadcast_progress = [c \in CampaignIds |-> NoRow]

InitNoSend ==
    /\ max_retries = 3
    /\ attempt = 0
    /\ responses = <<>>
    /\ result = "none"

\* One step of the code of worker w
ExecStep(w) ==
    \/ eb_get_campaign(w) \/ eb_get_progress(w) \/ eb_page(w) \/ eb_send(w)
    \/ eb_batch_sleep(w) \/ eb_checkpoint(w) \/ eb_delete(w) \/ eb_complete(w)
    \/ es_get_campaign(w) \/ es_send(w) \/ es_complete(w)
    \/ er_get_campaign(w) \/ er_get_unnotified(w) \/ er_get_participants(w)
    \/ swa_lock(w) \/ swa_count(w) \/ swa_insert(w) \/ swa_commit(w) \/ swa_unlock(w)
    \/ er_reread(w) \/ er_win(w) \/ er_mark(w) \/ er_lose(w) \/ er_complete(w)
    \/ ex_return(w)

FallbackStep(w) == sched_fetch_pending(w) \/ sched_fallback(w) \/ sched_sleep(w)

\* Spec: two processes run the scheduler at the same time (a redeployment overlap)
\* over one campaign that exists when they start; its notification is gone, so
\* both work from the fallback scan. The old process may get the shutdown signal
\* at any point and then stops for good; the new one goes on and resumes what
\* was left.
\* The campaign's type, the raffle's count and
\* pool, the blocked user and the single message's target are drawn at Init.
Init ==
    /\ InitEmptyStore
    /\ InitProcess(Workers)
    /\ InitNoSend
    /\ \E type \in CampaignTypes, count \in 1..MaxWinners, target \in 0..1,
          p \in 0..MaxPool, b \in {x \in SUBSET UserIds : Cardinality(x) <= 1} :
          /\ type = "broadcast" => count = 1 /\ target = 0 /\ p = 0
          /\ type = "raffle" => target = 0 /\ b = {}
          /\ type = "single_message" => count = 1 /\ p = 0 /\ b = {}
          /\ campaigns = (1 :> CampaignRow(type, Content(count, target), NULL))
          /\ blocked = b
          /\ valid_receipts = 1..p

Next ==
    \E w \in Workers :
        \/ ExecStep(w)
        \/ FallbackStep(w)
        \/ (w = OldProcess /\ Shutdown(w))

Spec == Init /\ [][Next]_vars

\* SpecRun: one process, never interrupted, over one campaign that exists when
\* it starts and that nothing has touched yet: the first execution of the
\* campaign runs from its first line to its return. The campaign's type, the
\* raffle's count and pool, the blocked user and the single message's target are
\* drawn at Init.
InitRun ==
    /\ InitEmptyStore
    /\ InitProcess({OldProcess})
    /\ InitNoSend
    /\ \E type \in CampaignTypes, count \in 1..MaxWinners, target \in 0..1,
          p \in 0..MaxPool, b \in {x \in SUBSET UserIds : Cardinality(x) <= 1} :
          /\ type = "broadcast" => count = 1 /\ target = 0 /\ p = 0
          /\ type = "raffle" => target = 0
          /\ type = "single_message" => count = 1 /\ p = 0 /\ b = {}
          /\ campaigns = (1 :> CampaignRow(type, Content(count, target), NULL))
          /\ blocked = b
          /\ valid_receipts = 1..p

NextRun == ExecStep(OldProcess) \/ FallbackStep(OldProcess)

SpecRun == InitRun /\ [][NextRun]_vars

\* ------------------------------------------- one process with its bridge
Main == OldProcess

\* the payloads a creator may store, by type
Contents(type) ==
    IF type = "raffle" THEN {Content(k, 0) : k \in 1..MaxWinners}
    ELSE IF type = "single_message" THEN {Content(1, t) : t \in 0..1}
    ELSE {Content(1, 0)}

\* the text a notification carries: NEW.id::text from the trigger (db.py line
\* 180), or whatever a session passes to NOTIFY new_campaign by hand
Malformed == {"abc"}

\* int(payload), main.py line 77: raises ValueError unless the text is a number
RaisesValueError(payload) == ~ \E id \in CampaignIds : ToString(id) = payload

ParsePayload(payload) == CHOOSE id \in CampaignIds : ToString(id) = payload

\* pg_notify: the payload reaches the sessions listening now
Notified(payload) ==
    [w \in Workers |-> IF listening[w] THEN channel[w] \cup {payload} ELSE channel[w]]

\* add_campaign called by an admin flow; the insert trigger (db.py lines 176-200)
\* notifies channel 'new_campaign'
AddCampaign(type, content, scheduled_for) ==
    /\ NextCampaignId \in CampaignIds
    /\ campaigns' = add_campaign(type, content, scheduled_for)
    /\ channel' = Notified(ToString(NextCampaignId))
    /\ UNCHANGED <<winners, txn, advisory_lock, broadcast_progress, blocked,
                   valid_receipts, now, pc, ret, cur, shutdown_event, notification_queue, popped,
                   pending, listening, listener_pc, bcastVars, raffleVars, sendVars, histVars>>

\* some session runs NOTIFY new_campaign with a payload that is no campaign id
NotifyMalformed(payload) ==
    /\ payload \in Malformed
    /\ \E w \in Workers : listening[w] /\ payload \notin channel[w]
    /\ channel' = Notified(payload)
    /\ UNCHANGED <<storeVars, pc, ret, cur, shutdown_event, notification_queue, popped, pending,
                   listening, listener_pc, bcastVars, raffleVars, sendVars, histVars>>

\* pg_listener, main.py lines 72-82: connect and add_listener succeed; the task
\* enters its keep-alive loop
listener_connect(w) ==
    /\ pc[w] # "stopped"
    /\ ~shutdown_event[w]
    /\ listener_pc[w] = "connect"
    /\ listening' = [listening EXCEPT ![w] = TRUE]
    /\ listener_pc' = [listener_pc EXCEPT ![w] = "loop"]
    /\ UNCHANGED <<storeVars, pc, ret, cur, shutdown_event, notification_queue, popped, pending,
                   channel, bcastVars, raffleVars, sendVars, histVars>>

\* lines 72 and 88-96: asyncpg.connect raises; the exception is logged, the
\* finally block runs, and pg_listener returns
listener_connect_fails(w) ==
    /\ pc[w] # "stopped"
    /\ listener_pc[w] = "connect"
    /\ listener_pc' = [listener_pc EXCEPT ![w] = "done"]
    /\ UNCHANGED <<storeVars, pc, ret, cur, shutdown_event, notification_queue, popped, pending,
                   listening, channel, bcastVars, raffleVars, sendVars, histVars>>

\* the connection of the listener drops: the subscription and what it had not
\* yet handed over are gone; the task stays in `while not shutdown_event.is_set():
\* await asyncio.sleep(1)` (lines 85-86), which does not look at the connection
ConnectionLost(w) ==
    /\ listening[w]
    /\ listener_pc[w] = "loop"
    /\ listening' = [listening EXCEPT ![w] = FALSE]
    /\ channel' = [channel EXCEPT ![w] = {}]
    /\ UNCHANGED <<storeVars, pc, ret, cur, shutdown_event, notification_queue, popped, pending,
                   listener_pc, bcastVars, raffleVars, sendVars, histVars>>

\* lines 85-96: the keep-alive loop sees the shutdown event; remove_listener, close
listener_stop(w) ==
    /\ listener_pc[w] = "loop"
    /\ shutdown_event[w]
    /\ listening' = [listening EXCEPT ![w] = FALSE]
    /\ listener_pc' = [listener_pc EXCEPT ![w] = "done"]
    /\ channel' = [channel EXCEPT ![w] = {}]
    /\ UNCHANGED <<storeVars, pc, ret, cur, shutdown_event, notification_queue, popped, pending,
                   bcastVars, raffleVars, sendVars, histVars>>

\* a handler that enqueues what it was given even when it is no number
EnqueueUnparsed(queue, payload) ==
    Append(queue, IF RaisesValueError(payload) THEN 0 ELSE ParsePayload(payload))

\* lines 76-79: put_nowait(int(payload)); on ValueError nothing is enqueued
Enqueued(queue, payload) ==
    IF RaisesValueError(payload) THEN queue ELSE Append(queue, ParsePayload(payload))

\* on_notification, main.py lines 74-79, called by the connection for a
\* notification it received; a ValueError is logged
on_notification(w) ==
    /\ listening[w]
    /\ \E payload \in channel[w] :
          /\ channel' = [channel EXCEPT ![w] = @ \ {payload}]
          /\ notification_queue' = [notification_queue EXCEPT ![w] = Enqueued(@, payload)]
          /\ invalid_logged_at' = IF RaisesValueError(payload) THEN now
                                  ELSE invalid_logged_at
    /\ UNCHANGED <<storeVars, pc, ret, cur, shutdown_event, popped, pending, listening,
                   listener_pc, bcastVars, raffleVars, sendVars, callLog, sends,
                   delivered, startCursor, startTotal, deferred, caught, tickLog>>

\* time passes
Tick ==
    /\ now < MaxTime
    /\ now' = now + 1
    /\ UNCHANGED <<campaigns, winners, txn, advisory_lock, broadcast_progress, blocked,
                   valid_receipts, procVars, bcastVars, raffleVars, sendVars, histVars>>

SchedulerStep(w) == sched_queue_pop(w) \/ sched_queue_loaded(w) \/ FallbackStep(w)

\* SpecSched: the program as it is deployed: one process (scheduler and
\* listener) over a store in which campaigns are created while it runs. The
\* process may be shut down and started again.
InitSched ==
    /\ InitEmptyStore
    /\ InitProcess({Main})
    /\ InitNoSend
    /\ campaigns = <<>>
    /\ blocked = {}
    /\ valid_receipts = 1..MaxPool

Environment ==
    \/ \E type \in CampaignTypes :
          \E content \in Contents(type), scheduled_for \in {NULL} \cup Times :
             /\ NextCampaignId <= MaxCreated
             /\ AddCampaign(type, content, scheduled_for)
    \/ Tick

\* what happens to the bridge from outside
BridgeEnvironment ==
    \/ \E payload \in Malformed : NotifyMalformed(payload)
    \/ ConnectionLost(Main)

ListenerStep(w) ==
    \/ listener_connect(w) \/ listener_connect_fails(w)
    \/ on_notification(w) \/ listener_stop(w)

NextSched ==
    \/ Environment
    \/ ExecStep(Main)
    \/ SchedulerStep(Main)
    \/ ListenerStep(Main)
    \/ ConnectionLost(Main)
    \/ Shutdown(Main)
    \/ Crash(Main)
    \/ Restart(Main)

SpecSched == InitSched /\ [][NextSched]_vars

\* SpecLive: the same process when no shutdown is raised and it is not killed,
\* under the scheduling the event loop gives: the scheduler task, whose awaits
\* all return, keeps taking its next step, so does the listener task, and time
\* passes.
NextLive ==
    \/ Environment
    \/ ExecStep(Main)
    \/ SchedulerStep(Main)
    \/ listener_connect(Main) \/ listener_connect_fails(Main) \/ on_notification(Main)
    \/ ConnectionLost(Main)

SpecLive ==
    /\ InitSched
    /\ [][NextLive]_vars
    /\ WF_vars(ExecStep(Main) \/ SchedulerStep(Main))
    /\ WF_vars(listener_connect(Main) \/ listener_connect_fails(Main)
                  \/ on_notification(Main))
    /\ WF_vars(Tick)

\* SpecFail: the process, with a listener that connects and stays connected,
\* over a store whose calls may raise at any time; no shutdown is raised. The
\* tasks are scheduled as in SpecLive.
NextFail ==
    \/ Environment
    \/ ExecStep(Main)
    \/ SchedulerStep(Main)
    \/ listener_connect(Main) \/ on_notification(Main)
    \/ StoreFails(Main)

SpecFail ==
    /\ InitSched
    /\ [][NextFail]_vars
    /\ WF_vars(ExecStep(Main) \/ SchedulerStep(Main))
    /\ WF_vars(listener_connect(Main) \/ on_notification(Main))
    /\ WF_vars(Tick)

\* some session notifies 'new_campaign' with an id once more: of a campaign that
\* exists (a copy of its notification) or of none
NotifyAgain(id) ==
    /\ \E w \in Workers : listening[w] /\ ToString(id) \notin channel[w]
    /\ \A w \in Workers : Len(notification_queue[w]) < MaxQueue
    /\ channel' = Notified(ToString(id))
    /\ UNCHANGED <<storeVars, pc, ret, cur, shutdown_event, notification_queue, popped,
                   pending, listening, listener_pc, bcastVars, raffleVars, sendVars,
                   histVars>>

\* SpecDup: one process, not interrupted, whose queue receives any number of
\* copies of a campaign's id and ids of no campaign
CreateOne ==
    \E type \in CampaignTypes :
       \E content \in Contents(type), scheduled_for \in {NULL, DueAt} :
          /\ NextCampaignId <= MaxCreated
          /\ AddCampaign(type, content, scheduled_for)

NextDup ==
    \/ CreateOne
    \/ Tick
    \/ \E id \in CampaignIds : NotifyAgain(id)
    \/ ExecStep(Main)
    \/ SchedulerStep(Main)
    \/ listener_connect(Main)
    \/ on_notification(Main)

SpecDup == InitSched /\ [][NextDup]_vars

\* SpecBridge: the notification bridge on its own: campaigns are created and
\* other sessions notify the channel while the listener task of one process
\* connects (or fails to) and may lose its connection; nothing takes from the
\* queue.
NextBridge ==
    \/ Environment
    \/ BridgeEnvironment
    \/ listener_connect(Main) \/ listener_connect_fails(Main) \/ on_notification(Main)

SpecBridge == InitSched /\ [][NextBridge]_vars

\* SpecOrder: one process, no stop signal, and two campaigns of the shortest kind
\* (single_message): which executions one pass of the scheduler loop starts, and
\* in which order
InitOrder ==
    /\ InitEmptyStore
    /\ InitProcess({Main})
    /\ InitNoSend
    /\ campaigns = <<>>
    /\ blocked = {}
    /\ valid_receipts = {}

CreateSingleMessage ==
    \E target \in {1}, scheduled_for \in {NULL, DueAt} :
       AddCampaign("single_message", Content(1, target), scheduled_for)

SingleMessageStep(w) ==
    es_get_campaign(w) \/ es_send(w) \/ es_complete(w) \/ ex_return(w)

NextOrder ==
    \/ CreateSingleMessage
    \/ Tick
    \/ SingleMessageStep(Main)
    \/ SchedulerStep(Main)
    \/ listener_connect(Main)
    \/ on_notification(Main)

SpecOrder == InitOrder /\ [][NextOrder]_vars

\* ------------------------------------------------- the store on its own
\* a caller invokes mark_campaign_completed(campaign_id, sent, failed)
MarkCompleted(campaign_id, s, f) ==
    /\ campaign_id \in DOMAIN campaigns
    /\ Len(callLog[campaign_id]) < MaxCalls
    /\ campaigns' = mark_campaign_completed(campaigns, campaign_id, s, f)
    /\ callLog' = [callLog EXCEPT ![campaign_id] = Append(@, <<s, f>>)]
    /\ UNCHANGED <<winners, txn, advisory_lock, broadcast_progress, blocked,
                   valid_receipts, now, procVars, bcastVars, raffleVars, sendVars,
                   sends, delivered, startCursor, startTotal, deferred, invalid_logged_at, caught,
                   tickLog>>

\* SpecStore: the campaigns table under direct calls of its methods
InitStore ==
    /\ InitEmptyStore
    /\ InitProcess({})
    /\ InitNoSend
    /\ campaigns = <<>>
    /\ blocked = {}
    /\ valid_receipts = {}

NextStore ==
    \/ Environment
    \/ \E campaign_id \in CampaignIds, s \in 0..MaxCount, f \in 0..MaxCount :
          MarkCompleted(campaign_id, s, f)

SpecStore == InitStore /\ [][NextStore]_vars

\* ------------------------------------------------ a delivery call on its own
\* what the transport answers to one send: delivered, TelegramRetryAfter,
\* TelegramForbiddenError, any other exception
Responses == {"ok", "retry_after", "forbidden", "error"}

\* a loop in which the forbidden response is handled as any other exception
ForbiddenRetried(r, a, m) ==
    IF r = "ok" THEN "True"
    ELSE IF r = "retry_after" THEN "continue"
    ELSE IF a < m - 1 THEN "continue" ELSE "False"

\* a loop in which the rate-limited send is repeated within the same attempt
RetryAfterSameAttempt(r, a, m) ==
    IF r = "ok" THEN "True"
    ELSE IF r = "retry_after" THEN "again"
    ELSE IF r = "forbidden" THEN "False"
    ELSE IF a < m - 1 THEN "continue" ELSE "False"

\* lines 41-63: what the body of the loop does with the answer r to the send of
\* attempt a out of m: return True, return False, or go to the next attempt
AfterResponse(r, a, m) ==
    IF r = "ok" THEN "True"
    ELSE IF r = "retry_after" THEN "continue"
    ELSE IF r = "forbidden" THEN "False"
    ELSE IF a < m - 1 THEN "continue" ELSE "False"

\* lines 40-63: one pass of `for attempt in range(max_retries)`
send_attempt(r) ==
    /\ result = "none"
    /\ attempt < max_retries
    /\ responses' = Append(responses, r)
    /\ LET after == AfterResponse(r, attempt, max_retries)
       IN /\ attempt' = IF after = "continue" THEN attempt + 1 ELSE attempt
          /\ result' = IF after \in {"True", "False"} THEN after ELSE result
    /\ UNCHANGED <<storeVars, procVars, bcastVars, raffleVars, max_retries, histVars>>

\* line 64: the range is exhausted
send_exhausted ==
    /\ result = "none"
    /\ attempt = max_retries
    /\ result' = "False"
    /\ UNCHANGED <<storeVars, procVars, bcastVars, raffleVars, max_retries, attempt,
                   responses, histVars>>

\* line 38: the next call, with its max_retries
send_message_with_retry(m) ==
    /\ result # "none"
    /\ max_retries' = m
    /\ attempt' = 0
    /\ responses' = <<>>
    /\ result' = "none"
    /\ UNCHANGED <<storeVars, procVars, bcastVars, raffleVars, histVars>>

\* SpecSend: calls of send_message_with_retry against a transport that may
\* answer each send in any of the four ways
InitSend ==
    /\ InitEmptyStore
    /\ InitProcess({})
    /\ campaigns = <<>>
    /\ blocked = {}
    /\ valid_receipts = {}
    /\ max_retries \in 1..MaxRetries
    /\ attempt = 0
    /\ responses = <<>>
    /\ result = "none"

NextSend ==
    \/ \E r \in Responses : send_attempt(r)
    \/ send_exhausted
    \/ \E m \in 1..MaxRetries : send_message_with_retry(m)

SpecSend == InitSend /\ [][NextSend]_vars

\* ------------------------------------------------------------- claims
TypeOf(campaign_id) == campaigns[campaign_id].type
Running(w, type) == cur[w] # 0 /\ TypeOf(cur[w]) = type
EntryLabels == {"eb_get_campaign", "es_get_campaign", "er_get_campaign"}
SelectionLabels == {"swa_lock", "swa_count", "swa_insert", "swa_commit", "swa_unlock"}
PartitionedLabels == {"er_win", "er_mark", "er_lose", "er_complete"}
IsPrefix(a, b) == Len(a) <= Len(b) /\ SubSeq(b, 1, Len(a)) = a
SentTo(w) == [i \in 1..Len(sends[w]) |-> sends[w][i][2]]

Occurrences(seq, x) == Cardinality({i \in 1..Len(seq) : seq[i] = x})

\* C1: after mark_campaign_completed has been called for a campaign, whatever
\* calls follow, its sent_count and failed_count are those of the first call.
C1_FirstCompletionStands ==
    \A c \in DOMAIN campaigns :
        Len(callLog[c]) >= 1
        => /\ campaigns[c].sent_count = callLog[c][1][1]
           /\ campaigns[c].failed_count = callLog[c][1][2]

\* C2: for a raffle with requested count K <= pool size P, under every
\* interleaving of two executions the winners table holds no rows or exactly K
\* rows of the campaign, one row per recipient, and exactly K once an execution
\* has passed the selection step and no execution is inside it.
C2_ExactlyKWinners ==
    \A c \in DOMAIN campaigns :
        (TypeOf(c) = "raffle" /\ campaigns[c].content.count <= Cardinality(valid_receipts))
        => /\ Cardinality(WinnerRows(c)) \in {0, campaigns[c].content.count}
           /\ Cardinality(WinnerRows(c)) = Cardinality(WinnerIds(c))
           /\ WinnerIds(c) \subseteq valid_receipts
           /\ ( /\ \E w \in Workers : cur[w] = c /\ pc[w] \in PartitionedLabels
                /\ \A w \in Workers : cur[w] = c => pc[w] \notin SelectionLabels )
              => Cardinality(WinnerRows(c)) = campaigns[c].content.count

\* C2 witness: both executions went through save_winners_atomic for the same
\* raffle, one saved its sample and the other got 0, and K rows are there.
C2_Witness ==
    /\ \A w \in Workers : Running(w, "raffle") /\ pc[w] \in PartitionedLabels
    /\ \E w \in Workers : saved[w] > 0
    /\ \E w \in Workers : saved[w] = 0
    /\ Cardinality(WinnerRows(1)) = campaigns[1].content.count
    /\ campaigns[1].content.count < Cardinality(valid_receipts)

\* C3: an execution whose save_winners_atomic returned 0 partitions the pool with
\* exactly the full committed winner set of the campaign, never with an empty set
\* or a strict subset of it.
C3_LoserReadsCommittedSet ==
    \A w \in Workers :
        (Running(w, "raffle") /\ pc[w] \in PartitionedLabels /\ saved[w] = 0)
        => /\ winners_data[w] # {}
           /\ winners_data[w] = WinnerIds(cur[w])

\* C4: a broadcast run that starts from a persisted checkpoint with cursor c
\* attempts the non-blocked recipients with id > c, each once, in ascending id
\* order: at every point of the run its deliveries are a prefix of that list,
\* and the whole list once the enumeration is finished.
C4_ResumeAfterCursor ==
    \A w \in Workers :
        Running(w, "broadcast")
        => LET expected == SortedSeq({u \in UserIds : u \notin blocked /\ u > startCursor[w]})
           IN /\ IsPrefix(SentTo(w), expected)
              /\ pc[w] \in {"eb_delete", "eb_complete"} => SentTo(w) = expected

\* C4 witness: a run resumed from a persisted cursor c > 0 has finished its
\* enumeration and delivered to somebody.
C4_Witness ==
    \E w \in Workers :
        /\ Running(w, "broadcast") /\ pc[w] = "eb_complete"
        /\ startCursor[w] > 0 /\ Len(sends[w]) > 0

\* C5: no recipient with a Winner row for a campaign is sent that campaign's
\* lose message.
C5_NoLoseMessageToWinner ==
    \A c \in DOMAIN campaigns : \A u \in WinnerIds(c) :
        [campaign |-> c, user |-> u, kind |-> "lose"] \notin delivered

C7_EventuallyCompleted ==
    \A c \in CampaignIds :
        (c \in DOMAIN campaigns) ~> (c \in DOMAIN campaigns /\ campaigns[c].is_completed)

\* C7 witness: a campaign whose notification came before scheduled_for (popped
\* and skipped) has been run from the fallback scan and is completed.
C7_Witness ==
    \E c \in deferred :
        /\ campaigns[c].is_completed
        /\ pc[Main] = "ex_return" /\ cur[Main] = c /\ ret[Main] = "sched_fallback"

\* C8: an execute_* call on a campaign with is_completed = true returns at once:
\* no delivery, and campaigns, winners and broadcast_progress stay as they are.
C8_CompletedIsNoOp ==
    [][\A w \in Workers :
          ( /\ pc[w] \in EntryLabels
            /\ campaigns[cur[w]].is_completed
            /\ pc'[w] # pc[w] )
          => /\ pc'[w] = "ex_return"
             /\ UNCHANGED <<campaigns, winners, broadcast_progress, delivered, sends>>]_vars

\* C8 witness: a raffle execution over a non-empty pool has returned from its
\* first check, having read neither winners nor pool, on a completed campaign.
C8_Witness ==
    \E w \in Workers :
        /\ Running(w, "raffle") /\ pc[w] = "ex_return"
        /\ campaigns[cur[w]].is_completed
        /\ valid_receipts # {} /\ all_participants[w] = {}

\* C9: once a campaign has is_completed = true, its sent_count, failed_count and
\* completed_at never change again.
C9_TalliesWrittenOnce ==
    [][\A c \in DOMAIN campaigns :
          campaigns[c].is_completed
          => /\ campaigns'[c].sent_count = campaigns[c].sent_count
             /\ campaigns'[c].failed_count = campaigns[c].failed_count
             /\ campaigns'[c].completed_at = campaigns[c].completed_at]_vars

\* C10: send_message_with_retry returns False only after a forbidden response
\* or after max_retries failures that are not rate limits: rate-limited
\* responses take nothing from the retry budget.
C10_RateLimitKeepsBudget ==
    result = "False"
    => \/ responses # <<>> /\ responses[Len(responses)] = "forbidden"
       \/ Occurrences(responses, "error") >= max_retries

\* C11: a forbidden response ends the call: it is the last response the call
\* ever gets, and the call has returned False (a value, nothing raised).
C11_ForbiddenIsTerminal ==
    \A i \in 1..Len(responses) :
        responses[i] = "forbidden" => i = Len(responses) /\ result = "False"

\* C11 witness: the forbidden response came after an earlier failed send with
\* attempts still left, and the call returned False.
C11_Witness ==
    /\ result = "False"
    /\ Len(responses) >= 2 /\ responses[Len(responses)] = "forbidden"
    /\ attempt < max_retries - 1

\* C12: the call makes at most max_retries sends; once it has returned, its
\* value is True exactly when one of the sends succeeded; max_retries
\* transient errors make it return False; and while it has not returned it can
\* always take its next step.
C12_BooleanWithinBudget ==
    /\ Len(responses) <= max_retries
    /\ result \in {"none", "True", "False"}
    /\ result # "none" => (result = "True" <=> Occurrences(responses, "ok") > 0)
    /\ Occurrences(responses, "error") = max_retries => result = "False"
    /\ result = "none" => attempt = Len(responses) /\ attempt <= max_retries

\* C12 witness: a call that met a rate limit and a transient error returned
\* True on its last send.
C12_Witness ==
    /\ result = "True"
    /\ Len(responses) = max_retries /\ max_retries >= 3
    /\ Occurrences(responses, "retry_after") > 0
    /\ Occurrences(responses, "error") > 0

\* C13: whenever the listener has no subscription because its connection was
\* lost or its connect failed, it eventually is subscribed again.
C13_BridgeReconnects ==
    (listener_pc[Main] # "connect" /\ ~listening[Main]) ~> listening[Main]

Last(seq) == seq[Len(seq)]

\* C15: the step of execute_broadcast that sees the shutdown event (before a
\* page fetch or before a recipient) writes the checkpoint (last_user_id, sent,
\* failed) of the run and returns: last_user_id is the last recipient delivered
\* to (the cursor the run started from when it delivered to nobody), sent +
\* failed is the count carried over plus the deliveries of this run, the
\* campaign is not completed, and the step delivers nothing.
C15_ShutdownCheckpoint ==
    [][\A w \in Workers :
          ( /\ shutdown_event[w]
            /\ eb_page(w) \/ eb_send(w) )
          => /\ pc'[w] = "ex_return"
             /\ broadcast_progress'[cur[w]] =
                    [last_user_id |-> IF sends[w] = <<>> THEN startCursor[w]
                                      ELSE Last(SentTo(w)),
                     sent_count |-> sent[w], failed_count |-> failed[w]]
             /\ sent[w] + failed[w] = startTotal[w] + Len(sends[w])
             /\ ~campaigns'[cur[w]].is_completed
             /\ delivered' = delivered /\ sends' = sends]_vars

\* C15 witness: a broadcast run that had delivered to somebody saw the
\* shutdown event before the next recipient and has returned with its
\* checkpoint written.
C15_Witness ==
    \E w \in Workers :
        /\ Running(w, "broadcast") /\ pc[w] = "ex_return" /\ shutdown_event[w]
        /\ sends[w] # <<>> /\ users_page[w] # <<>>
        /\ broadcast_progress[cur[w]] # NoRow
        /\ ~campaigns[cur[w]].is_completed

Successes(w) == Cardinality({i \in 1..Len(sends[w]) : sends[w][i][3]})
Recipients(w, kind) == {sends[w][i][2] : i \in {j \in 1..Len(sends[w]) : sends[w][j][1] = kind}}
Returned(w, type) == Running(w, type) /\ pc[w] = "ex_return"

\* C16: an uninterrupted execute_broadcast calls the delivery once per
\* non-blocked recipient, in ascending id, and never for a blocked one; when it
\* returns the campaign is completed, sent_count + failed_count is the number
\* of non-blocked recipients, sent_count the number of successful deliveries,
\* and the campaign has no broadcast_progress row.
C16_BroadcastRunsToCompletion ==
    \A w \in Workers :
        Running(w, "broadcast")
        => LET expected == SortedSeq(UserIds \ blocked)
               c == cur[w]
           IN /\ IsPrefix(SentTo(w), expected)
              /\ pc[w] = "ex_return"
                 => /\ SentTo(w) = expected
                    /\ campaigns[c].is_completed
                    /\ campaigns[c].sent_count + campaigns[c].failed_count = Len(expected)
                    /\ campaigns[c].sent_count = Successes(w)
                    /\ broadcast_progress[c] = NoRow

\* C16 witness: a broadcast over more recipients than one page, with a delivery
\* that succeeded and one that failed, has returned.
C16_Witness ==
    \E w \in Workers :
        /\ Returned(w, "broadcast")
        /\ Len(sends[w]) > PageLimit
        /\ campaigns[cur[w]].sent_count > 0 /\ campaigns[cur[w]].failed_count > 0

\* C17: an uninterrupted first execute_raffle with count K below the pool size
\* P and no failed delivery has, when it returns, persisted exactly K Winner
\* rows, sent the win message to exactly those K and the lose message to exactly
\* the other P - K, one message per participant, marked every winner notified,
\* and completed the campaign with sent_count = P and failed_count = 0.
C17_RaffleRunsToCompletion ==
    \A w \in Workers :
        ( /\ Returned(w, "raffle")
          /\ campaigns[cur[w]].content.count < Cardinality(valid_receipts)
          /\ Successes(w) = Len(sends[w]) )
        => LET c == cur[w]
           IN /\ Cardinality(WinnerRows(c)) = campaigns[c].content.count
              /\ Cardinality(WinnerIds(c)) = campaigns[c].content.count
              /\ Recipients(w, "win") = WinnerIds(c)
              /\ Recipients(w, "lose") = valid_receipts \ WinnerIds(c)
              /\ Len(sends[w]) = Cardinality(valid_receipts)
              /\ \A r \in WinnerRows(c) : r.notified
              /\ campaigns[c].is_completed
              /\ campaigns[c].sent_count = Cardinality(valid_receipts)
              /\ campaigns[c].failed_count = 0

\* C17 witness: a raffle with K < P and every delivery successful has returned.
C17_Witness ==
    \E w \in Workers :
        /\ Returned(w, "raffle")
        /\ campaigns[cur[w]].content.count < Cardinality(valid_receipts)
        /\ Successes(w) = Len(sends[w]) /\ Len(sends[w]) > 0

\* C18: when a raffle with count K >= pool size P > 0 and no Winner rows is
\* executed, once the selection is done every participant of the pool has a
\* Winner row, the loser set is empty and no lose message is sent.
C18_FullPoolAllWin ==
    \A w \in Workers :
        ( /\ Running(w, "raffle")
          /\ valid_receipts # {}
          /\ campaigns[cur[w]].content.count >= Cardinality(valid_receipts) )
        => /\ Recipients(w, "lose") = {}
           /\ pc[w] \in PartitionedLabels \cup {"ex_return"}
              => /\ WinnerIds(cur[w]) = valid_receipts
                 /\ losers[w] = {}

\* C18 witness: a raffle with K > P > 0 has returned.
C18_Witness ==
    \E w \in Workers :
        /\ Returned(w, "raffle")
        /\ valid_receipts # {}
        /\ campaigns[cur[w]].content.count > Cardinality(valid_receipts)
        /\ campaigns[cur[w]].is_completed

\* C19: a raffle over an empty pool with no Winner rows inserts no Winner row
\* and delivers nothing, and when it returns the campaign is completed with
\* sent_count = 0 and failed_count = 0.
C19_EmptyPoolCompletes ==
    \A w \in Workers :
        (Running(w, "raffle") /\ valid_receipts = {})
        => /\ WinnerRows(cur[w]) = {} /\ txn[w] = {}
           /\ sends[w] = <<>> /\ delivered = {}
           /\ pc[w] = "ex_return"
              => /\ campaigns[cur[w]].is_completed
                 /\ campaigns[cur[w]].sent_count = 0
                 /\ campaigns[cur[w]].failed_count = 0

\* C19 witness: a raffle over an empty pool has returned.
C19_Witness ==
    \E w \in Workers :
        Returned(w, "raffle") /\ valid_receipts = {} /\ campaigns[cur[w]].is_completed

\* C20: within one pass of the scheduler loop, every execution started from the
\* notification queue starts before any execution started from the fallback
\* scan, the executions of the fallback scan start in ascending created_at
\* order, and an execution starts only when no other execution of the same
\* scheduler is in progress (the previous one has returned).
C20_QueueThenFallbackInOrder ==
    [][\A w \in Workers :
          Len(tickLog'[w]) > Len(tickLog[w])
          => /\ cur[w] = 0
             /\ pc[w] \in {"sched_loaded", "sched_fallback"}
             /\ \A i \in 1..Len(tickLog[w]) :
                   LET old == tickLog[w][i]
                       new == Last(tickLog'[w])
                   IN /\ new[2] = "queue" => old[2] = "queue"
                      /\ (old[2] = "fallback" /\ new[2] = "fallback")
                         => campaigns[old[1]].created_at <= campaigns[new[1]].created_at]_vars

\* C20 witness: one pass of the loop has started an execution from the queue and
\* then an execution of another campaign from the fallback scan.
C20_Witness ==
    \E w \in Workers :
        /\ Len(tickLog[w]) = 2
        /\ tickLog[w][1][2] = "queue"
        /\ tickLog[w][2][2] = "fallback"
        /\ tickLog[w][1][1] # tickLog[w][2][1]

\* ------------------------------------------- receipts accepted meanwhile
\* a user's first receipt is accepted (handlers/receipts.py line 211 calls
\* add_receipt with status "valid")
AcceptReceipt(u) ==
    /\ u \notin valid_receipts
    /\ valid_receipts' = add_receipt(valid_receipts, u)
    /\ UNCHANGED <<campaigns, winners, txn, advisory_lock, broadcast_progress, blocked, now,
                   procVars, bcastVars, raffleVars, sendVars, histVars>>

RaffleStep(w) ==
    \/ er_get_campaign(w) \/ er_get_unnotified(w) \/ er_get_participants(w)
    \/ swa_lock(w) \/ swa_count(w) \/ swa_insert(w) \/ swa_commit(w) \/ swa_unlock(w)
    \/ er_reread(w) \/ er_win(w) \/ er_mark(w) \/ er_lose(w) \/ er_complete(w)
    \/ ex_return(w)

\* SpecPool: one process, never interrupted, over one raffle campaign that
\* exists when it starts, while users go on registering receipts. The users
\* with a valid receipt at the start are 1..p, p up to MaxPool, so user
\* MaxUser can only get a first valid receipt after the campaign was created.
InitPool ==
    /\ InitEmptyStore
    /\ InitProcess({Main})
    /\ InitNoSend
    /\ \E count \in 1..MaxWinners, p \in 0..MaxPool,
          b \in {x \in SUBSET UserIds : Cardinality(x) <= 1} :
          /\ campaigns = (1 :> CampaignRow("raffle", Content(count, 0), NULL))
          /\ blocked = b
          /\ valid_receipts = 1..p

NextPool ==
    \/ \E u \in UserIds : AcceptReceipt(u)
    \/ RaffleStep(Main)
    \/ FallbackStep(Main)

SpecPool == InitPool /\ [][NextPool]_vars

\* C21: once shutdown_event is set the scheduler starts no execution: no step
\* taken while the event is set turns a scheduler with no execution in progress
\* into one that runs process_campaign, from the queue or from the fallback list.
C21_NoNewWorkAfterShutdown ==
    [][\A w \in Workers :
          (shutdown_event[w] /\ cur[w] = 0) => cur'[w] = 0]_vars

\* C22: an exception raised by a store call during a pass of the scheduler loop
\* does not end the scheduler: it is caught (line 139 or line 148), and, no
\* shutdown being raised, the loop reaches its sleep and begins a later pass.
C22_SchedulerSurvivesStoreFailure ==
    (caught[Main] # "none") ~> (caught[Main] = "none" /\ pc[Main] = "sched_queue")

\* C22 witness: the scheduler sleeps after a store call of the fallback scan raised.
C22_Witness ==
    caught[Main] = "scheduler" /\ pc[Main] = "sched_sleep" /\ campaigns # <<>>

\* C23: in one process that is not interrupted, whatever copies of a campaign's
\* id and whatever ids of absent campaigns arrive in the queue: a popped id of
\* an absent or completed campaign starts no execution, makes no delivery and
\* changes nothing in the store; no recipient is sent the same message of the
\* same campaign twice; and the row of a completed campaign never changes.
C23_DuplicatesHarmless ==
    [][\A w \in Workers :
          /\ ( /\ sched_queue_loaded(w)
               /\ \/ get_campaign(popped[w]) = NoRow
                  \/ get_campaign(popped[w]).is_completed )
             => /\ cur'[w] = 0
                /\ UNCHANGED <<storeVars, sends, delivered>>
          /\ Len(sends'[w]) > Len(sends[w])
             => [campaign |-> cur[w], user |-> Last(sends'[w])[2],
                 kind |-> Last(sends'[w])[1]] \notin delivered
          /\ \A c \in DOMAIN campaigns :
                campaigns[c].is_completed => campaigns'[c] = campaigns[c]]_vars

\* C23 witness: a pass of the loop executed a campaign from the queue, the
\* campaign is completed, and a copy of its id has been popped in the same pass.
C23_Witness ==
    /\ popped[Main] \in DOMAIN campaigns
    /\ campaigns[popped[Main]].is_completed
    /\ delivered # {}
    /\ tickLog[Main] # <<>>
    /\ tickLog[Main][1] = <<popped[Main], "queue">>

\* C24: a raffle execution that finds the shutdown event set in its winner loop
\* returns leaving the campaign incomplete and the Winner rows as they are; the
\* Winner rows of a campaign, once there, never change in number or identity;
\* an execution takes as winners to notify exactly the rows with notified =
\* false at the time it reads them, sends the win message to each of them
\* when it gets through its winner loop, and every win message goes to a
\* recipient whose row has notified = false when it is sent.
C24_RaffleResumesUnnotified ==
    [][\A w \in Workers :
          /\ (er_win(w) /\ shutdown_event[w])
             => /\ ~campaigns'[cur[w]].is_completed
                /\ winners' = winners
          /\ \A c \in DOMAIN campaigns :
                WinnerIds(c) # {}
                => {r.user_id : r \in {x \in winners' : x.campaign_id = c}} = WinnerIds(c)
          /\ (er_get_unnotified(w) \/ er_reread(w))
             => winners_data'[w] =
                   {r.user_id : r \in {x \in winners : x.campaign_id = cur[w] /\ ~x.notified}}
          /\ (Len(sends'[w]) > Len(sends[w]) /\ Last(sends'[w])[1] = "win")
             => [campaign_id |-> cur[w], user_id |-> Last(sends'[w])[2],
                 notified |-> FALSE] \in winners
          /\ (pc[w] \in {"er_win", "er_mark"} /\ pc'[w] \in {"er_lose", "er_complete"})
             => {sends'[w][i][2] : i \in 1..Len(sends'[w])} = winners_data[w]]_vars

\* C24 witness: an execution that found some winners of the campaign already
\* notified has sent the win message to the other winners and to nobody else.
C24_Witness ==
    \E w \in Workers :
        /\ Running(w, "raffle")
        /\ pc[w] \in {"er_lose", "er_complete"}
        /\ winners_data[w] # {}
        /\ WinnerIds(cur[w]) \ winners_data[w] # {}
        /\ Recipients(w, "win") = winners_data[w]
        /\ \E r \in WinnerRows(cur[w]) : r.notified /\ r.user_id \notin winners_data[w]

\* C25: a Winner row gets notified = true only in the step that follows a win
\* message to its recipient, for its campaign, that returned True; a row with
\* notified = true keeps it; and a win message that returned False changes no
\* row and is not followed by mark_winner_notified.
C25_NotifiedOnlyAfterSuccess ==
    [][/\ \A r \in winners' :
             r.notified
             => \/ r \in winners
                \/ \E w \in Workers :
                      /\ er_mark(w)
                      /\ cur[w] = r.campaign_id
                      /\ sends[w] # <<>>
                      /\ Last(sends[w]) = <<"win", r.user_id, TRUE>>
       /\ \A r \in winners : r.notified => r \in winners'
       /\ \A w \in Workers :
             ( /\ Len(sends'[w]) > Len(sends[w])
               /\ Last(sends'[w])[1] = "win"
               /\ ~Last(sends'[w])[3] )
             => winners' = winners /\ pc'[w] # "er_mark"]_vars

\* C25 witness: one winner of a raffle is notified, and the win message to
\* another winner returned False and left its row with notified = false.
C25_Witness ==
    \E w \in Workers :
        /\ Running(w, "raffle")
        /\ \E i \in 1..Len(sends[w]) :
              /\ sends[w][i][1] = "win" /\ ~sends[w][i][3]
              /\ WinnerRow(cur[w], sends[w][i][2]) \in winners
        /\ \E r \in WinnerRows(cur[w]) : r.notified

\* C26: a broadcast campaign with is_completed = false and no
\* broadcast_progress row has not started: no delivery was made for it.
C26_NoCheckpointMeansNotStarted ==
    \A c \in DOMAIN campaigns :
        ( /\ TypeOf(c) = "broadcast"
          /\ ~campaigns[c].is_completed
          /\ broadcast_progress[c] = NoRow )
        => \A d \in delivered : d.campaign # c

\* C27: the last_user_id stored in the broadcast_progress row of a campaign
\* never decreases from one write of the row to the next, also when two
\* processes execute the broadcast at the same time.
C27_CheckpointCursorMonotonic ==
    [][\A c \in CampaignIds :
          (broadcast_progress[c] # NoRow /\ broadcast_progress'[c] # NoRow)
          => broadcast_progress'[c].last_user_id >= broadcast_progress[c].last_user_id]_vars

\* C28: in execute_broadcast, whenever the position in the page is a multiple
\* of BROADCAST_BATCH_SIZE (a batch boundary) and the loop stands before the
\* next recipient, the broadcast_progress row of the campaign holds the
\* current last_user_id, sent and failed.
C28_CheckpointAtEveryBatchBoundary ==
    \A w \in Workers :
        ( /\ Running(w, "broadcast")
          /\ pc[w] \in {"eb_send", "eb_page"}
          /\ page_i[w] > 0
          /\ page_i[w] % BROADCAST_BATCH_SIZE = 0 )
        => broadcast_progress[cur[w]] =
               [last_user_id |-> last_user_id[w], sent_count |-> sent[w],
                failed_count |-> failed[w]]

\* C29: when execute_broadcast loads its starting point (after a crash and a
\* restart as well as the first time), the recipients already delivered to
\* that lie beyond the loaded cursor, who will get the message again, are
\* fewer than the checkpoint interval, and the cursor is not zero when more
\* recipients than the interval were already delivered to.
C29_CrashRedeliveryBounded ==
    [][\A w \in Workers :
          eb_get_progress(w) =>
              LET done == {d.user : d \in {e \in delivered :
                               e.campaign = cur[w] /\ e.kind = "broadcast"}}
                  again == {u \in done : u > last_user_id'[w]}
              IN /\ Cardinality(again) < CheckpointEvery
                 /\ Cardinality(done) > CheckpointEvery => last_user_id'[w] > 0]_vars

\* C30: execute_raffle's pool is the set of users with a valid receipt at the
\* moment it reads the pool, blocked or not, so it holds the users whose first
\* receipt was accepted after the campaign was created; and when the raffle
\* completes, every user of the pool has been sent the win message or the
\* lose message.
C30_PoolComputedAtExecution ==
    [][\A w \in Workers :
          /\ er_get_participants(w) => all_participants'[w] = valid_receipts
          /\ er_complete(w) =>
                \A u \in all_participants[w] :
                    \E d \in delivered : /\ d.campaign = cur[w]
                                         /\ d.user = u
                                         /\ d.kind \in {"win", "lose"}]_vars

\* C30: the raffle is about to complete; user MaxUser, whose first receipt was
\* accepted after the campaign was created and who is blocked, was in the pool
\* and won, and another user of the pool was sent the lose message.
C30_Witness ==
    /\ pc[Main] = "er_complete"
    /\ MaxUser \in all_participants[Main]
    /\ MaxUser \in blocked
    /\ [campaign |-> cur[Main], user |-> MaxUser, kind |-> "win"] \in delivered
    /\ \E u \in all_participants[Main] :
          [campaign |-> cur[Main], user |-> u, kind |-> "lose"] \in delivered

\* ------------------------------------------- a broadcast stopped and resumed
BroadcastStep(w) ==
    \/ eb_get_campaign(w) \/ eb_get_progress(w) \/ eb_page(w) \/ eb_send(w)
    \/ eb_batch_sleep(w) \/ eb_checkpoint(w) \/ eb_delete(w) \/ eb_complete(w)
    \/ ex_return(w)

\* SpecResume: one process over one broadcast campaign that exists when it
\* starts. The process is never killed; it gets the shutdown signal at any
\* point, stops through its own checks, and is started again, any number of
\* times. The campaign's notification is gone, so the fallback scan finds it.
\* The blocked user is drawn at Init.
InitResume ==
    /\ InitEmptyStore
    /\ InitProcess({Main})
    /\ InitNoSend
    /\ \E b \in {x \in SUBSET UserIds : Cardinality(x) <= 1} :
          /\ campaigns = (1 :> CampaignRow("broadcast", Content(1, 0), NULL))
          /\ blocked = b
          /\ valid_receipts = {}

NextResume ==
    \/ BroadcastStep(Main)
    \/ FallbackStep(Main)
    \/ Shutdown(Main)
    \/ Restart(Main)

SpecResume == InitResume /\ [][NextResume]_vars

\* ------------------------------------------- one campaign that always raises
\* the campaign whose execution raises on every attempt, and another one
FailingCampaign == CHOOSE c \in CampaignIds : \A d \in CampaignIds : c <= d
OtherCampaign == CHOOSE c \in CampaignIds : c # FailingCampaign

\* the first store call of an execution of FailingCampaign raises
ExecutionRaises(w) ==
    /\ cur[w] = FailingCampaign
    /\ StoreFails(w)

\* SpecHol: the process of SpecOrder, where every execution of the campaign
\* created first raises at its first store call and all other calls return;
\* the tasks are scheduled as in SpecLive.
NextHol ==
    \/ CreateSingleMessage
    \/ Tick
    \/ (cur[Main] # FailingCampaign /\ SingleMessageStep(Main))
    \/ SchedulerStep(Main)
    \/ listener_connect(Main)
    \/ on_notification(Main)
    \/ ExecutionRaises(Main)

SpecHol ==
    /\ InitOrder
    /\ [][NextHol]_vars
    /\ WF_vars((cur[Main] # FailingCampaign /\ SingleMessageStep(Main))
                  \/ SchedulerStep(Main) \/ ExecutionRaises(Main))
    /\ WF_vars(listener_connect(Main) \/ on_notification(Main))
    /\ WF_vars(Tick)

\* ------------------------------------------- store failures and the queue
\* SpecIso: the process of SpecOrder over a store whose calls may raise at any
\* time: two campaigns, their ids in the queue, no shutdown.
NextIso ==
    \/ CreateSingleMessage
    \/ Tick
    \/ SingleMessageStep(Main)
    \/ SchedulerStep(Main)
    \/ listener_connect(Main)
    \/ on_notification(Main)
    \/ StoreFails(Main)

SpecIso == InitOrder /\ [][NextIso]_vars

\* ------------------------------------------- the selection under failures
\* SpecAtomic: two processes execute one raffle that exists when they start,
\* over a store whose calls may raise at any time; the raffle's count and pool
\* are drawn at Init.
InitAtomic ==
    /\ InitEmptyStore
    /\ InitProcess(Workers)
    /\ InitNoSend
    /\ \E count \in 1..MaxWinners, p \in 1..MaxPool :
          /\ campaigns = (1 :> CampaignRow("raffle", Content(count, 0), NULL))
          /\ blocked = {}
          /\ valid_receipts = 1..p

NextAtomic ==
    \E w \in Workers :
        \/ RaffleStep(w)
        \/ FallbackStep(w)
        \/ StoreFails(w)

SpecAtomic == InitAtomic /\ [][NextAtomic]_vars

\* ------------------------------------------- the process being shut down
\* SpecStop: the process of SpecLive, which may get the shutdown signal at any
\* point and is not killed; every store and delivery call returns, so the
\* scheduler task keeps taking its next step, and so does the listener task.
NextStop ==
    \/ Environment
    \/ ExecStep(Main)
    \/ SchedulerStep(Main)
    \/ listener_connect(Main) \/ on_notification(Main) \/ listener_stop(Main)
    \/ Shutdown(Main)

SpecStop ==
    /\ InitSched
    /\ [][NextStop]_vars
    /\ WF_vars(ExecStep(Main) \/ SchedulerStep(Main))
    /\ WF_vars(listener_connect(Main) \/ on_notification(Main) \/ listener_stop(Main))

\* C31: an execution of execute_single_message delivers at most once, and only
\* to target_user_id; its completion call leaves the campaign completed with
\* sent_count + failed_count = 1, (1, 0) exactly when its delivery succeeded,
\* (0, 1) when it failed or there is no target; and it returns only from a
\* completed campaign whose counts add up to 1.
C31_SingleMessageOneRecipient ==
    [][\A w \in Workers :
          /\ es_send(w) =>
                /\ sends[w] = <<>>
                /\ Last(sends'[w])[2] = campaigns[cur[w]].content.target_user_id
          /\ es_complete(w) =>
                LET row == campaigns'[cur[w]]
                    target == campaigns[cur[w]].content.target_user_id
                IN /\ row.is_completed
                   /\ row.sent_count + row.failed_count = 1
                   /\ row.sent_count = 1 <=> sends[w] = << <<"single", target, TRUE>> >>
                   /\ target = 0 => sends[w] = <<>> /\ row.failed_count = 1
          /\ (ex_return(w) /\ Running(w, "single_message")) =>
                /\ campaigns[cur[w]].is_completed
                /\ campaigns[cur[w]].sent_count + campaigns[cur[w]].failed_count = 1
                /\ Len(sends[w]) <= 1]_vars

\* C31: an execution of a single message returns after one successful
\* delivery to the target, the campaign completed with (1, 0).
C31_Witness ==
    \E w \in Workers :
        /\ Returned(w, "single_message")
        /\ sends[w] = << <<"single", campaigns[cur[w]].content.target_user_id, TRUE>> >>
        /\ campaigns[cur[w]].is_completed
        /\ campaigns[cur[w]].sent_count = 1
        /\ campaigns[cur[w]].failed_count = 0

\* the recipients a broadcast campaign has been delivered to, over all its runs
DeliveredTo(set, c) == {d.user : d \in {e \in set : e.campaign = c /\ e.kind = "broadcast"}}

\* C32: in one process that is only ever stopped by the shutdown signal, each
\* write of the broadcast_progress row stores counters that add up to the
\* number of recipients delivered to so far over all runs of the campaign,
\* none of them beyond the stored cursor; no recipient is delivered to twice
\* and no blocked user at all; and the completion call stores counters that
\* add up to the number of non-blocked users, all of them delivered to.
C32_CheckpointConsistent ==
    [][\A w \in Workers :
          /\ (eb_checkpoint(w) \/ ((eb_page(w) \/ eb_send(w)) /\ shutdown_event[w])) =>
                LET row == broadcast_progress'[cur[w]]
                    done == DeliveredTo(delivered', cur[w])
                IN /\ row # NoRow
                   /\ row.sent_count + row.failed_count = Cardinality(done)
                   /\ \A u \in done : u <= row.last_user_id
          /\ (eb_send(w) /\ Len(sends'[w]) > Len(sends[w])) =>
                /\ Last(sends'[w])[2] \notin DeliveredTo(delivered, cur[w])
                /\ Last(sends'[w])[2] \notin blocked
          /\ eb_complete(w) =>
                /\ campaigns'[cur[w]].sent_count + campaigns'[cur[w]].failed_count
                      = Cardinality(UserIds \ blocked)
                /\ DeliveredTo(delivered, cur[w]) = UserIds \ blocked]_vars

\* C32: a broadcast that was stopped by shutdown after its first recipients
\* and resumed from the stored cursor has completed, its counters adding up to
\* the number of non-blocked users, one of the users being blocked.
C32_Witness ==
    /\ Returned(Main, "broadcast")
    /\ startCursor[Main] > 0
    /\ blocked # {}
    /\ campaigns[cur[Main]].is_completed
    /\ campaigns[cur[Main]].sent_count + campaigns[cur[Main]].failed_count
          = Cardinality(UserIds \ blocked)

\* C33: a broadcast campaign that is completed has no broadcast_progress row,
\* also when two processes execute the broadcast at the same time.
C33_CompletedHasNoCheckpoint ==
    \A c \in DOMAIN campaigns :
        (TypeOf(c) = "broadcast" /\ campaigns[c].is_completed)
        => broadcast_progress[c] = NoRow

\* C34: when every execution of one campaign raises, another campaign that
\* exists, is not completed and is due is eventually completed.
C34_NoHeadOfLineBlocking ==
    ( /\ OtherCampaign \in DOMAIN campaigns
      /\ ~campaigns[OtherCampaign].is_completed
      /\ ~ScheduledInFuture(campaigns[OtherCampaign]) )
    ~> ( /\ OtherCampaign \in DOMAIN campaigns
         /\ campaigns[OtherCampaign].is_completed )

\* the campaign is in the list a fallback scan would fetch now
InPendingList(c) ==
    \A rows \in get_pending_campaigns : \E i \in 1..Len(rows) : rows[i] = c

\* C35: when loading or executing the campaign of a popped id raises, the
\* scheduler goes on with the queue loop, the ids still in the queue stay
\* there and the failed id is not put back, no campaign row changes, and the
\* campaign whose execution raised is incomplete and in the list of the next
\* fallback scan; and a pass reaches its sleep only through the fallback scan.
C35_NotificationErrorIsolated ==
    [][\A w \in Workers :
          /\ (StoreFails(w) /\ Path(w) = "sched_queue") =>
                /\ pc'[w] = "sched_queue"
                /\ notification_queue'[w] = notification_queue[w]
                /\ campaigns' = campaigns
                /\ cur[w] # 0 => /\ ~campaigns'[cur[w]].is_completed
                                 /\ InPendingList(cur[w])
          /\ (pc'[w] = "sched_sleep" /\ pc[w] # "sched_sleep") =>
                \/ sched_fallback(w)
                \/ StoreFails(w) /\ Path(w) = "sched_fallback"]_vars

\* C35: in one pass the execution of a notified campaign raised, the next id of
\* the queue was executed and completed, and the fallback scan of the same
\* pass started the failed campaign again.
C35_Witness ==
    /\ caught[Main] = "notification"
    /\ Len(tickLog[Main]) = 3
    /\ tickLog[Main][1][2] = "queue"
    /\ tickLog[Main][2][2] = "queue"
    /\ tickLog[Main][1][1] # tickLog[Main][2][1]
    /\ tickLog[Main][3] = <<tickLog[Main][1][1], "fallback">>
    /\ campaigns[tickLog[Main][2][1]].is_completed

\* the worker is inside save_winners_atomic with the advisory lock taken
HoldsLockInside(w, c) ==
    cur[w] = c /\ pc[w] \in {"swa_count", "swa_insert", "swa_commit", "swa_unlock"}

\* C36: the winners table changes only when a save_winners_atomic call
\* commits, and then by the rows of the whole selection and of no one else;
\* a call that raises adds no row; rows are inserted and committed only by
\* the holder of the campaign's advisory lock and only when the campaign had
\* no winner row; and the lock is held only by a worker inside the call, so
\* it is free after every return and every exception.
C36_SaveWinnersAllOrNothing ==
    [][\A w \in Workers :
          /\ swa_commit(w) =>
                /\ WinnerRows(cur[w]) = {}
                /\ advisory_lock[cur[w]] = w
                /\ winners' \ winners = {WinnerRow(cur[w], u) : u \in sample[w]}
          /\ swa_insert(w) =>
                /\ WinnerRows(cur[w]) = {}
                /\ advisory_lock[cur[w]] = w
                /\ winners' = winners
          /\ StoreFails(w) =>
                /\ winners' = winners
                /\ txn'[w] = {}
          /\ (winners' # winners) => \E v \in Workers : swa_commit(v) \/ er_mark(v)
          /\ \A c \in CampaignIds :
                /\ advisory_lock[c] = w => HoldsLockInside(w, c)
                /\ advisory_lock'[c] = w => HoldsLockInside(w, c)']_vars

\* C36: a store call of one process has raised in this pass and the winners
\* table is empty, while the other process holds the lock in the middle of
\* its inserts, one row written in its open transaction and one to come.
C36_Witness ==
    \E w, v \in Workers :
        /\ w # v
        /\ caught[w] = "scheduler"
        /\ winners = {}
        /\ pc[v] = "swa_insert"
        /\ advisory_lock[cur[v]] = v
        /\ txn[v] # {}
        /\ todo[v] # <<>>

\* C37: once the shutdown event is set the scheduler eventually stops; with
\* the event set, a scheduler that sleeps stops with its next step, and a
\* broadcast or a raffle that reaches its next recipient returns without
\* delivering.
C37_SchedulerStopsAfterShutdown ==
    /\ shutdown_event[Main] ~> (pc[Main] = "stopped")
    /\ [][\A w \in Workers :
             /\ (shutdown_event[w] /\ sched_sleep(w)) => pc'[w] = "stopped"
             /\ (shutdown_event[w] /\ (eb_send(w) \/ er_win(w) \/ er_lose(w))) =>
                   /\ pc'[w] = "ex_return"
                   /\ sends' = sends /\ delivered' = delivered]_vars

\* C37: the scheduler has stopped after a shutdown that came while a campaign
\* was being delivered: some recipients were delivered to and the campaign is
\* not completed.
C37_Witness ==
    /\ pc[Main] = "stopped"
    /\ shutdown_event[Main]
    /\ delivered # {}
    /\ \E c \in DOMAIN campaigns :
          /\ ~campaigns[c].is_completed
          /\ \E d \in delivered : d.campaign = c

====
